---- MODULE Spec2Model ----
(***************************************************************************)
(* Shared-memory market-data matrix of aleph-tx: the seqlock slot          *)
(* protocol, the version-polling reader (src/src/shm_reader.rs) and the    *)
(* strategy dispatch loop (src/src/main.rs).                               *)
(*                                                                         *)
(* The feeder (writer) is a separate process; it is modelled from the      *)
(* writer discipline of spec section 4.B.  Every atomic load or store of   *)
(* shared memory is one step, so that reader and writer interleave at the  *)
(* granularity of single memory accesses.                                  *)
(***************************************************************************)
EXTENDS Integers, Sequences, FiniteSets, TLC

\* ------------------------------------------------------------------ bounds
\* Scan bound of the reader (max_symbols); the program attaches with 2048.
MaxSymbols == 2
\* Exchange slots per symbol in the model (NUM_EXCHANGES is 5 in the program).
NumExchanges == 2
\* Total number of version advances the writer performs in a bounded run.
MaxAdvances == 2
\* Exchange slots per symbol the arbitrage scanners look at (5 in the program).
NumArbExchanges == 3
\* Significant bits of a floating-point value in the model (53 in an f64).
MantissaBits == 12
\* size_of::<ShmMarketState>() in the units file lengths are counted in.
ExpectedSize == 3

\* Number of strategies main registers, in insertion order.
NumStrategies == 3

Symbols == 0 .. (MaxSymbols - 1)
Exchanges == 0 .. (NumExchanges - 1)
Strategies == 1 .. NumStrategies

\* Quotes the feeder may publish: a regular book and a crossed book.
Quotes == { [bid |-> 1, ask |-> 2], [bid |-> 2, ask |-> 1] }

\* Payload bytes a fresh region may hold under seq = 0.
InitPayloads == { [bid |-> 0, ask |-> 0], [bid |-> 1, ask |-> 2] }

PayloadFields == {"bid", "ask"}
SlotFields == {"seqlock", "bid", "ask"}

\* ShmBboMessage::default(): the value the reader returns instead of a payload.
DefaultMsg == [seqlock |-> 0, bid |-> 0, ask |-> 0]

None == << >>
Some(s) == << s >>

VARIABLES
  symbol_versions,  \* shared: version counter per symbol
  bbo_matrix,       \* shared: slot per (symbol, exchange)
  w,                \* writer: position and operands of the publish in progress
  local_versions,   \* reader: last-seen version per symbol
  rpc,              \* reader: position
  op,               \* reader: the ShmReader call in progress or just returned
  sym,              \* reader: scan index of try_poll / poll_all
  loaded,           \* reader: the versions the scan in progress has loaded
  local0,           \* history: local_versions when the scan in progress began
  max,              \* reader: the max argument of poll_all
  updated,          \* reader: the vector poll_all builds
  poll_ret,         \* reader: the value try_poll returned
  symbol_id,        \* reader: symbol argument of read_bbo / read_all_exchanges
  exch,             \* reader: exchange being read; main loop: slot being dispatched
  seq1, seq2,       \* reader: the two seqlock loads of read_bbo_strict
  todo,             \* reader: fields the volatile copy has not loaded yet
  msg,              \* reader: the copy read_bbo_strict is building
  result,           \* reader: the array read_all_exchanges returns
  calls,            \* dispatch: strategy calls of the current loop iteration
  shutdown,         \* main: the flag the Ctrl+C task sets
  phase,            \* main: "loop", then the steps of the cleanup
  cancels,          \* main: the cancellations the cleanup has gone through
  min_spread_bps,   \* ArbitrageEngine: the threshold given to new
  arb_slots,        \* arbitrage: the array read_all_exchanges gave check
  signal,           \* arbitrage: what check returned
  bbo_state,        \* strategy: the engine's slots of one symbol
  arb_log,          \* strategy: the ARB line of the last on_bbo_update
  file_len,         \* open: length of the region file, -1 when it is missing
  num_symbols,      \* open: the num_symbols argument
  open_pc,          \* open: position in ShmReader::open
  open_ret,         \* open: "none" (running), "Ok", "Err" or "panic"
  mapped,           \* open: whether the region is mapped in the process
  max_symbols,      \* open: the scan bound stored in the handle
  access,           \* open: what the last load through the handle met
  seen,             \* client: per slot, the record its last read returned
  strategy,         \* quoter: "edgex" (market_maker.rs) or "backpack"
  api_client,       \* quoter: whether the strategy has an API client
  now,              \* quoter: the monotonic clock, in seconds
  last_mid,         \* quoter: last mid of the target, 0 before the first
  last_quoted_mid,  \* quoter: the mid of the last requote decision
  last_update,      \* quoter: the time of the last requote decision
  last_balance_refresh, \* quoter: the time of the last usable balance reply
  max_position,     \* quoter: risk budget, in 0.01 of the base asset
  base_size,        \* quoter: risk budget, in 0.01 of the base asset
  stop_loss_usd,    \* quoter: risk budget, in 0.01 USD
  mm_pc,            \* quoter: where the dispatch thread is in the strategy
  tasks,            \* executor: the requote tasks spawned so far
  position,         \* exchange: the account's position, in 0.01
  entry,            \* exchange: its average entry price, 0 when not reported
  mid_history,      \* quoter: the mids of the target, oldest first
  arrivals,         \* history: every mid the target has delivered, in order
  resting           \* exchange: the strategy's resting orders, where observed

shared == << symbol_versions, bbo_matrix >>
\* The state of main outside the reader and its loop body.
opening == << file_len, num_symbols, open_pc, open_ret, mapped, max_symbols,
             access >>
\* What a client of the reader keeps of the records it was given.
client == << seen >>
\* A market-maker strategy, the tasks it spawned and its exchange account.
strategyState == << strategy, api_client, now, last_mid, last_quoted_mid,
                   last_update, last_balance_refresh, max_position, base_size,
                   stop_loss_usd, mm_pc, tasks, position, entry, mid_history,
                   arrivals >>
\* The same with the orders the strategy has resting on its exchange.
quoter == << strategyState, resting >>
aside == << shutdown, phase, cancels, min_spread_bps, arb_slots, signal,
           bbo_state, arb_log, opening, quoter >>
outside == << aside, client >>
vars == << symbol_versions, bbo_matrix, w, local_versions, rpc, op, sym, loaded,
           local0, max, updated, poll_ret, symbol_id, exch, seq1, seq2, todo,
           msg, result, calls, shutdown, phase, cancels, min_spread_bps,
           arb_slots, signal, bbo_state, arb_log, file_len, num_symbols,
           open_pc, open_ret, mapped, max_symbols, access, seen, strategy,
           api_client, now, last_mid, last_quoted_mid, last_update,
           last_balance_refresh, max_position, base_size, stop_loss_usd,
           mm_pc, tasks, position, entry, mid_history, arrivals, resting >>

\* ------------------------------------------------------------------ writer
WriterIdle == [pc |-> "idle", s |-> 0, e |-> 0, q |-> [bid |-> 0, ask |-> 0],
               todo |-> {}]

\* seq | 1
Or1(n) == IF n % 2 = 0 THEN n + 1 ELSE n

SumVersions == LET RECURSIVE Sum(_)
                   Sum(S) == IF S = {} THEN 0
                             ELSE LET x == CHOOSE y \in S : TRUE
                                  IN symbol_versions[x] + Sum(S \ {x})
               IN Sum(Symbols)

\* The advances made so far, counting the one a publish in progress owes.
Advances == SumVersions + (IF w.pc = "idle" THEN 0 ELSE 1)

\* The publishes begun so far: each raised the seq of its slot by two.
Publishes ==
  LET RECURSIVE Sum(_)
      Sum(S) == IF S = {} THEN 0
                ELSE LET x == CHOOSE y \in S : TRUE
                     IN (bbo_matrix[x[1]][x[2]].seqlock + 1) \div 2 + Sum(S \ {x})
  IN Sum(Symbols \X Exchanges)

\* Step 1: claim the slot with an odd seq.
WBegin(s, e, q) ==
  /\ w.pc = "idle"
  /\ Advances < MaxAdvances
  /\ Publishes < MaxAdvances
  /\ bbo_matrix' = [bbo_matrix EXCEPT ![s][e].seqlock = Or1(@)]
  /\ w' = [pc |-> "store", s |-> s, e |-> e, q |-> q, todo |-> PayloadFields]
  /\ UNCHANGED symbol_versions

\* Step 2: store the payload, one field at a time, in any order.
WStore(f) ==
  /\ w.pc = "store"
  /\ f \in w.todo
  /\ bbo_matrix' = [bbo_matrix EXCEPT ![w.s][w.e][f] = w.q[f]]
  /\ w' = [w EXCEPT !.todo = @ \ {f}]
  /\ UNCHANGED symbol_versions

\* Step 3: release the slot with the next even seq.
WCommit ==
  /\ w.pc = "store"
  /\ w.todo = {}
  /\ bbo_matrix' = [bbo_matrix EXCEPT ![w.s][w.e].seqlock = @ + 1]
  /\ w' = [w EXCEPT !.pc = "advance"]
  /\ UNCHANGED symbol_versions

\* Step 4: advance the symbol's version after the slot write.
WAdvance ==
  /\ w.pc = "advance"
  /\ symbol_versions' = [symbol_versions EXCEPT ![w.s] = @ + 1]
  /\ w' = WriterIdle
  /\ UNCHANGED bbo_matrix

\* An advance of the version vector that writes no slot (legal, spec 8.9).
WTouch(s) ==
  /\ w.pc = "idle"
  /\ Advances < MaxAdvances
  /\ symbol_versions' = [symbol_versions EXCEPT ![s] = @ + 1]
  /\ UNCHANGED << bbo_matrix, w >>

Writer ==
  /\ \/ \E s \in Symbols, e \in Exchanges, q \in Quotes : WBegin(s, e, q)
     \/ \E f \in PayloadFields : WStore(f)
     \/ WCommit
     \/ WAdvance
     \/ \E s \in Symbols : WTouch(s)
  /\ UNCHANGED << local_versions, rpc, op, sym, loaded, local0, max, updated,
                  poll_ret, symbol_id, exch, seq1, seq2, todo, msg, result,
                  calls, outside >>

\* The load returns the highest counter of the region, whatever the symbol.
load_version_highest(s) ==
  CHOOSE v \in { symbol_versions[t] : t \in Symbols } :
    \A t \in Symbols : symbol_versions[t] <= v

\* ------------------------------------------------------------------ reader
\* load_version: acquire-load of symbol_versions[s].
load_version(s) == symbol_versions[s]

\* Mutant: the test accepts an unchanged version.
AdvancedOrEqual(version, local) == version >= local

\* shm_reader.rs:154 and :170, the test that a symbol has new data.
Advanced(version, local) == version > local

NoVersions == [s \in Symbols |-> 0]
\* A client that has read nothing yet.
NoneSeen == [s \in Symbols |-> [e \in Exchanges |-> << >>]]
NoResult == [e \in Exchanges |-> DefaultMsg]

\* The locals of a scan (try_poll, poll_all) that is not running.
NoScan ==
  /\ sym' = 0
  /\ loaded' = NoVersions
  /\ local0' = NoVersions
  /\ max' = 0
  /\ updated' = << >>
  /\ poll_ret' = None

\* The locals of a slot read (read_bbo, read_all_exchanges) that is not running.
NoRead ==
  /\ symbol_id' = 0
  /\ exch' = 0
  /\ seq1' = 0
  /\ seq2' = 0
  /\ todo' = {}
  /\ msg' = DefaultMsg
  /\ result' = NoResult

\* try_poll is poll_all(1) with the first element taken out of the vector.
TryPollByVector(i, ld, l0) ==
  LET version == load_version(i)
      hit == Advanced(version, local_versions[i]) IN
  /\ op' = "try_poll"
  /\ sym' = i + 1
  /\ loaded' = [ld EXCEPT ![i] = version]
  /\ local0' = l0
  /\ max' = 1
  /\ updated' = IF hit THEN << i >> ELSE << >>
  /\ local_versions' = IF hit THEN [local_versions EXCEPT ![i] = version]
                       ELSE local_versions
  /\ poll_ret' = IF hit THEN Some(i) ELSE None
  /\ rpc' = IF hit \/ i + 1 >= MaxSymbols THEN "returned" ELSE "try_poll"
  /\ NoRead
  /\ UNCHANGED << shared, w, outside >>

\* try_poll's loop body for index i: load, compare, store, return or go on.
\* ld and l0 are the versions loaded so far and the local versions at entry.
TryPollScan(i, ld, l0) ==
  LET version == load_version(i) IN
  /\ op' = "try_poll"
  /\ sym' = i + 1
  /\ loaded' = [ld EXCEPT ![i] = version]
  /\ local0' = l0
  /\ max' = 0
  /\ updated' = << >>
  /\ IF Advanced(version, local_versions[i])
     THEN /\ local_versions' = [local_versions EXCEPT ![i] = version]
          /\ poll_ret' = Some(i)
          /\ rpc' = "returned"
     ELSE /\ UNCHANGED local_versions
          /\ poll_ret' = None
          /\ rpc' = IF i + 1 < MaxSymbols THEN "try_poll" ELSE "returned"
  /\ NoRead
  /\ UNCHANGED << shared, w, outside >>

\* poll_all's loop body for index i, with the vector built so far.
PollAllScan(i, m, upd, ld, l0) ==
  LET version == load_version(i)
      hit == Advanced(version, local_versions[i])
      upd2 == IF hit THEN Append(upd, i) ELSE upd
      stop == (hit /\ Len(upd2) >= m) \/ (i + 1 >= MaxSymbols)
  IN
  /\ op' = "poll_all"
  /\ max' = m
  /\ sym' = i + 1
  /\ loaded' = [ld EXCEPT ![i] = version]
  /\ local0' = l0
  /\ updated' = upd2
  /\ poll_ret' = None
  /\ local_versions' = IF hit THEN [local_versions EXCEPT ![i] = version]
                       ELSE local_versions
  /\ rpc' = IF stop THEN "returned" ELSE "poll_all"
  /\ NoRead
  /\ UNCHANGED << shared, w, outside >>

\* shm_reader.rs:165, 172: the vector of poll_all is the one object of the
\* reader that lives on the heap. Vec::with_capacity(max) takes room for max
\* elements (none for max = 0), a push to a full vector takes more. The other
\* locals (the versions, seq1, seq2, the record and the array of records) are
\* scalars and fixed-size arrays on the stack.
HeapElements == IF Len(updated) > max THEN Len(updated) ELSE max

\* Mutant: the loaded version is stored at index 0.
VersionIndexFirst(s) == 0

\* The index whose local version read_bbo / read_all_exchanges overwrite.
VersionIndex(s) == s

\* The first statement of read_bbo (o = "read_bbo", one slot e0) and of
\* read_all_exchanges (o = "read_all_exchanges", from slot 0): the local
\* version is overwritten with the loaded one, then the slot reads follow.
ReadBegin(o, s, e0) ==
  LET version == load_version(s) IN
  /\ op' = o
  /\ symbol_id' = s
  /\ local_versions' = [local_versions EXCEPT ![VersionIndex(s)] = version]
  /\ exch' = e0
  /\ result' = NoResult
  /\ rpc' = "seq1"
  /\ seq1' = 0
  /\ seq2' = 0
  /\ todo' = {}
  /\ msg' = DefaultMsg
  /\ NoScan
  /\ UNCHANGED << shared, w, outside >>

\* Mutants: the bail-out misses the odd case, or the zero case.
StrictBailNoOdd(s1) == s1 = 0
StrictBailNoZero(s1) == s1 % 2 # 0

\* The bail-out also hits a slot the caller already holds a record of: each
\* payload is given out once.
StrictBailSeen(s1) == s1 % 2 # 0 \/ s1 = 0 \/ seen[symbol_id][exch] # << >>

\* shm_reader.rs:125, bail if odd (write in progress) or zero (never written).
StrictBail(s1) == s1 % 2 # 0 \/ s1 = 0

\* Mutant: the re-check is missing.
TornNever(s1, s2) == FALSE

\* Every re-check fails.
TornAlways(s1, s2) == TRUE

\* shm_reader.rs:140, the re-check of the seqlock.
Torn(s1, s2) == s1 # s2

\* read_bbo_strict starts over on a sentinel instead of returning it.
StrictRetry(m) ==
  IF m = DefaultMsg
  THEN /\ rpc' = "seq1"
       /\ msg' = DefaultMsg
       /\ todo' = {}
       /\ UNCHANGED << result, exch >>
  ELSE /\ result' = [result EXCEPT ![exch] = m]
       /\ exch' = exch + 1
       /\ msg' = DefaultMsg
       /\ todo' = {}
       /\ rpc' = IF op = "read_all_exchanges" /\ exch + 1 < NumExchanges
                 THEN "seq1" ELSE "returned"

\* read_bbo_strict returns m: the caller stores it and reads the next slot
\* (read_all_exchanges) or returns (read_bbo, or the last slot).
StrictReturn(m) ==
  /\ result' = [result EXCEPT ![exch] = m]
  /\ exch' = exch + 1
  /\ msg' = DefaultMsg
  /\ todo' = {}
  /\ rpc' = IF op = "read_all_exchanges" /\ exch + 1 < NumExchanges
            THEN "seq1" ELSE "returned"

readerFrame == << shared, w, local_versions, op, sym, loaded, local0, max,
                  updated, poll_ret, symbol_id, calls, aside >>

\* Phase 1: acquire-load of the seqlock.
LoadSeq1 ==
  LET s1 == bbo_matrix[symbol_id][exch].seqlock IN
  /\ rpc = "seq1"
  /\ seq1' = s1
  /\ seq2' = 0
  /\ IF StrictBail(s1)
     THEN StrictReturn(DefaultMsg)
     ELSE /\ rpc' = "copy"
          /\ todo' = SlotFields
          /\ msg' = DefaultMsg
          /\ UNCHANGED << result, exch >>
  /\ UNCHANGED readerFrame

\* Phase 3: the volatile read of the 64-byte record. It is no atomic access
\* and races with the writer's stores: the fields are loaded one at a time,
\* in an order the build chooses.
CopyField(f) ==
  /\ rpc = "copy"
  /\ f \in todo
  /\ msg' = [msg EXCEPT ![f] = bbo_matrix[symbol_id][exch][f]]
  /\ todo' = todo \ {f}
  /\ UNCHANGED << rpc, exch, seq1, seq2, result >>
  /\ UNCHANGED readerFrame

\* Phase 5: second acquire-load of the seqlock, and the comparison.
LoadSeq2 ==
  LET s2 == bbo_matrix[symbol_id][exch].seqlock IN
  /\ rpc = "copy"
  /\ todo = {}
  /\ seq2' = s2
  /\ IF Torn(seq1, s2) THEN StrictReturn(DefaultMsg) ELSE StrictReturn(msg)
  /\ UNCHANGED seq1
  /\ UNCHANGED readerFrame

\* The steps of read_bbo_strict.
StrictStep == LoadSeq1 \/ (\E f \in SlotFields : CopyField(f)) \/ LoadSeq2

\* The steps of read_bbo_strict for a caller that keeps nothing.
ReadStrict == StrictStep /\ UNCHANGED client

\* A strict read of slot (symbol_id, exch - 1) has just returned result[exch - 1].
JustRead ==
  \/ op = "read_all_exchanges" /\ rpc \in {"seq1", "returned"} /\ exch >= 1
  \/ op = "read_bbo" /\ rpc = "returned"

\* ------------------------------------------------------- the dispatch loop
\* strategy/arbitrage.rs:22, the validity test of a BBO (invariant I4).
is_valid(bbo) == bbo.bid > 0 /\ bbo.ask > 0 /\ bbo.bid < bbo.ask

\* main.rs:95, the test the dispatch loop applies to a slot it has read.
PassesFilter(bbo) == bbo.bid > 0 /\ bbo.ask > 0

\* The calls for one slot made on the strategies in reverse insertion order.
SlotCallsReversed(s, e, bbo) ==
  [k \in 1 .. NumStrategies |->
     [fn |-> "on_bbo_update", strategy |-> NumStrategies + 1 - k,
      symbol_id |-> s, exchange_id |-> e, bbo |-> bbo]]

\* main.rs:96-98, the calls for one slot: every strategy, in insertion order.
SlotCalls(s, e, bbo) ==
  [k \in 1 .. NumStrategies |->
     [fn |-> "on_bbo_update", strategy |-> k, symbol_id |-> s,
      exchange_id |-> e, bbo |-> bbo]]

\* main.rs:94-100, the calls for the slots e .. NumExchanges - 1 of the array.
RECURSIVE DispatchFrom(_, _, _)
DispatchFrom(s, exchanges, e) ==
  IF e >= NumExchanges THEN << >>
  ELSE (IF PassesFilter(exchanges[e]) THEN SlotCalls(s, e, exchanges[e])
        ELSE << >>) \o DispatchFrom(s, exchanges, e + 1)

\* main.rs:104-106, the calls of an empty poll.
IdleCalls ==
  [k \in 1 .. NumStrategies |->
     [fn |-> "on_idle", strategy |-> k, symbol_id |-> 0, exchange_id |-> 0,
      bbo |-> DefaultMsg]]

\* ------------------------------------------------------------ f64 values
\* An f64 is m * 2^e with |m| < 2^MantissaBits, normalised so that
\* |m| >= 2^(MantissaBits - 1) unless it is zero. The operations round to
\* nearest, ties to even, as IEEE 754 does; the format here has MantissaBits
\* significant bits where f64 has 53, and no exponent limits.
FZero == [m |-> 0, e |-> 0]

Abs(n) == IF n < 0 THEN 0 - n ELSE n

Sgn(n) == IF n < 0 THEN 0 - 1 ELSE IF n > 0 THEN 1 ELSE 0

\* The number of low bits to drop from a >= 2^MantissaBits.
RECURSIVE DropBits(_, _)
DropBits(a, k) == IF a < 2 ^ (MantissaBits + k) THEN k ELSE DropBits(a, k + 1)

\* The number of bits to shift a < 2^(MantissaBits - 1) up.
RECURSIVE GrowBits(_, _)
GrowBits(a, k) ==
  IF a * 2 ^ k >= 2 ^ (MantissaBits - 1) THEN k ELSE GrowBits(a, k + 1)

\* The f64 nearest to the exact value m * 2^e.
FRound(m, e) ==
  IF m = 0 THEN FZero
  ELSE LET a == Abs(m)
       IN IF a >= 2 ^ MantissaBits
          THEN LET k  == DropBits(a, 1)
                   q  == a \div (2 ^ k)
                   r  == a % (2 ^ k)
                   h  == 2 ^ (k - 1)
                   q1 == IF r > h \/ (r = h /\ q % 2 = 1) THEN q + 1 ELSE q
               IN IF q1 = 2 ^ MantissaBits
                  THEN [m |-> Sgn(m) * 2 ^ (MantissaBits - 1), e |-> e + k + 1]
                  ELSE [m |-> Sgn(m) * q1, e |-> e + k]
          ELSE LET k == GrowBits(a, 0)
               IN [m |-> Sgn(m) * a * 2 ^ k, e |-> e - k]

\* An integer below 2^MantissaBits as an f64 (exact).
F(n) == FRound(n, 0)

FNeg(a) == [m |-> 0 - a.m, e |-> a.e]

\* a * b
FMul(a, b) == FRound(a.m * b.m, a.e + b.e)

\* a / b, b not zero: the quotient to MantissaBits + 2 bits and a sticky bit.
FDiv(a, b) ==
  IF a.m = 0 THEN FZero
  ELSE LET n == Abs(a.m) * 2 ^ (MantissaBits + 2)
           q == n \div Abs(b.m)
           s == IF n % Abs(b.m) = 0 THEN 0 ELSE 1
       IN FRound(Sgn(a.m) * Sgn(b.m) * (2 * q + s),
                 a.e - b.e - (MantissaBits + 2) - 1)

\* a + b
FAdd(a, b) ==
  IF a.m = 0 THEN b
  ELSE IF b.m = 0 THEN a
  ELSE LET hi == IF a.e >= b.e THEN a ELSE b
           lo == IF a.e >= b.e THEN b ELSE a
           d  == hi.e - lo.e
       IN IF d > MantissaBits + 2 THEN hi
          ELSE FRound(hi.m * 2 ^ d + lo.m, lo.e)

\* a - b
FSub(a, b) == FAdd(a, FNeg(b))

\* a > b
FGt(a, b) ==
  LET PosGt(x, y) == x.e > y.e \/ (x.e = y.e /\ x.m > y.m)
  IN IF Sgn(a.m) # Sgn(b.m) THEN Sgn(a.m) > Sgn(b.m)
     ELSE IF a.m > 0 THEN PosGt(a, b)
     ELSE IF a.m < 0 THEN PosGt(FNeg(b), FNeg(a))
     ELSE FALSE

\* a < b
FLt(a, b) == FGt(b, a)

\* f64::MAX
FMax == [m |-> 2 ^ MantissaBits - 1, e |-> 1024 - MantissaBits]

\* ---------------------------------------------------- arbitrage scanners
ArbExchanges == 0 .. (NumArbExchanges - 1)

\* A slot as the scanners see it (BboSnapshot::from_shm): prices are f64,
\* sizes and the timestamp are only compared and copied.
ArbQuote(bid, ask, bid_size, ask_size, ts) ==
  [bid_price |-> F(bid), ask_price |-> F(ask), bid_size |-> bid_size,
   ask_size |-> ask_size, timestamp_ns |-> ts]

\* ShmBboMessage::default() as a snapshot.
DefaultQuote == ArbQuote(0, 0, 0, 0, 0)

\* The slots the feeder publishes in the model: three valid books, a crossed
\* one, and the default record.
ArbQuotes ==
  { ArbQuote(2403, 2404, 2, 1, 1), ArbQuote(2396, 2397, 1, 3, 2),
    ArbQuote(2390, 2410, 1, 1, 3), ArbQuote(2450, 2380, 5, 5, 3),
    DefaultQuote }

\* The thresholds an engine is built with in the model (main.rs:53 gives 25.0).
Thresholds == { F(5), F(25) }

\* Every slot is taken as valid.
SnapshotAlwaysValid(bbo) == TRUE

\* arbitrage.rs:34, BboSnapshot::is_valid on f64 prices.
BboSnapshot_is_valid(bbo) ==
  /\ FGt(bbo.bid_price, FZero)
  /\ FGt(bbo.ask_price, FZero)
  /\ FLt(bbo.bid_price, bbo.ask_price)

\* arbitrage.rs:124-130, the locals of the scan before the loop.
ScanInit ==
  [best_bid_price |-> FZero, best_bid_size |-> 0, best_bid_exchange |-> 0,
   best_ask_price |-> FMax, best_ask_size |-> 0, best_ask_exchange |-> 0,
   latest_ts |-> 0]

\* arbitrage.rs:133-156, one iteration of the scan.
ScanStep(acc, e, bbo) ==
  IF ~BboSnapshot_is_valid(bbo) THEN acc
  ELSE LET a1 == IF FGt(bbo.bid_price, acc.best_bid_price)
                 THEN [acc EXCEPT !.best_bid_price = bbo.bid_price,
                                  !.best_bid_size = bbo.bid_size,
                                  !.best_bid_exchange = e]
                 ELSE acc
           a2 == IF FLt(bbo.ask_price, a1.best_ask_price)
                 THEN [a1 EXCEPT !.best_ask_price = bbo.ask_price,
                                 !.best_ask_size = bbo.ask_size,
                                 !.best_ask_exchange = e]
                 ELSE a1
       IN IF bbo.timestamp_ns > a2.latest_ts
          THEN [a2 EXCEPT !.latest_ts = bbo.timestamp_ns]
          ELSE a2

\* arbitrage.rs:132-157, the loop over the exchanges from e on.
RECURSIVE ScanFrom(_, _, _)
ScanFrom(slots, e, acc) ==
  IF e >= NumArbExchanges THEN acc
  ELSE ScanFrom(slots, e + 1, ScanStep(acc, e, slots[e]))

\* arbitrage.rs:121-173
find_global_best(slots) ==
  LET acc == ScanFrom(slots, 0, ScanInit)
  IN IF FGt(acc.best_bid_price, FZero) /\ FLt(acc.best_ask_price, FMax)
     THEN Some([bid_price |-> acc.best_bid_price, bid_size |-> acc.best_bid_size,
                bid_exchange |-> acc.best_bid_exchange,
                ask_price |-> acc.best_ask_price, ask_size |-> acc.best_ask_size,
                ask_exchange |-> acc.best_ask_exchange,
                timestamp_ns |-> acc.latest_ts])
     ELSE None

Min(a, b) == IF a < b THEN a ELSE b

\* The threshold taken as a percentage.
min_spread_ratio_percent(bps) == FDiv(bps, F(100))

\* arbitrage.rs:114, min_spread_ratio
min_spread_ratio(bps) == FDiv(bps, F(10000))

\* arbitrage.rs:75-83, GlobalBest::spread and GlobalBest::mid
spread(bid, ask) == FSub(bid, ask)

mid(bid, ask) == FMul(FAdd(bid, ask), FRound(1, 0 - 1))

\* arbitrage.rs:189, the multiply-only trigger.
fast_trigger(bid, ask, bps) ==
  FGt(spread(bid, ask), FMul(mid(bid, ask), min_spread_ratio(bps)))

\* arbitrage.rs:191, the spread in basis points.
spread_bps(bid, ask) == FMul(FDiv(spread(bid, ask), mid(bid, ask)), F(10000))

\* arbitrage.rs:315, the exact test.
slow_trigger(bid, ask, bps) == FGt(spread_bps(bid, ask), bps)

\* arbitrage.rs:178-220, ArbitrageEngine::check on the array that
\* read_all_exchanges returned, for an engine built with threshold bps.
check(slots, bps) ==
  LET found == find_global_best(slots)
  IN IF found = None THEN None
     ELSE LET global == found[1]
          IN IF global.bid_exchange = global.ask_exchange THEN None
             ELSE IF fast_trigger(global.bid_price, global.ask_price, bps)
             THEN IF FGt(global.bid_price, global.ask_price)
                  THEN Some([buy_exchange |-> global.ask_exchange,
                             sell_exchange |-> global.bid_exchange,
                             buy_price |-> global.ask_price,
                             sell_price |-> global.bid_price,
                             size |-> Min(global.bid_size, global.ask_size),
                             spread_bps |-> spread_bps(global.bid_price,
                                                       global.ask_price),
                             timestamp_ns |-> global.timestamp_ns])
                  ELSE None
             ELSE None

\* strategy/arbitrage.rs:76-121, the scan of the engine's slots and the ARB
\* line it logs (the loop is the one of find_global_best without latest_ts).
scan_state(slots, bps) ==
  LET acc == ScanFrom(slots, 0, ScanInit)
  IN IF /\ FGt(acc.best_bid_price, FZero)
        /\ FLt(acc.best_ask_price, FMax)
        /\ acc.best_bid_exchange # acc.best_ask_exchange
        /\ FGt(acc.best_bid_price, acc.best_ask_price)
        /\ fast_trigger(acc.best_bid_price, acc.best_ask_price, bps)
     THEN Some([buy_exchange |-> acc.best_ask_exchange,
                sell_exchange |-> acc.best_bid_exchange,
                buy_price |-> acc.best_ask_price,
                sell_price |-> acc.best_bid_price,
                size |-> Min(acc.best_bid_size, acc.best_ask_size),
                spread_bps |-> spread_bps(acc.best_bid_price,
                                          acc.best_ask_price)])
     ELSE None

NoSlots == [e \in ArbExchanges |-> DefaultQuote]

\* The feeder has published bbo to slot e of the symbol, and check is called:
\* read_all_exchanges gives it the slots as they are.
ArbCheck(e, bbo) ==
  /\ arb_slots' = [arb_slots EXCEPT ![e] = bbo]
  /\ signal' = check(arb_slots', min_spread_bps)
  /\ UNCHANGED << shared, w, local_versions, rpc, op, sym, loaded, local0, max,
                  updated, poll_ret, symbol_id, exch, seq1, seq2, todo, msg,
                  result, calls, shutdown, phase, cancels, min_spread_bps,
                  bbo_state, arb_log, opening, client, quoter >>

\* strategy/arbitrage.rs:70-121, the body of on_bbo_update: the slot is
\* stored, then the engine's slots of the symbol are scanned.
ArbStore(exchange_id, bbo) ==
  /\ bbo_state' = [bbo_state EXCEPT ![exchange_id] = bbo]
  /\ arb_log' = scan_state(bbo_state', min_spread_bps)

\* strategy/arbitrage.rs:69-123, on_bbo_update(symbol_id, exchange_id, bbo).
ArbOnBboUpdate(exchange_id, bbo) ==
  /\ ArbStore(exchange_id, bbo)
  /\ UNCHANGED << shared, w, local_versions, rpc, op, sym, loaded, local0, max,
                  updated, poll_ret, symbol_id, exch, seq1, seq2, todo, msg,
                  result, calls, shutdown, phase, cancels, min_spread_bps,
                  arb_slots, signal, opening, client, quoter >>

\* ------------------------------------------------ market-maker strategies
\* strategy/market_maker.rs (EdgeX) and strategy/backpack_mm.rs (Backpack).
\* Times are in seconds, sizes and positions in 0.01 of the base asset, prices
\* in USD and amounts of money in 0.01 USD; a size below 0.01 is 0.
MmStrategies == {"edgex", "backpack"}

\* Length of the clock of a bounded run.
MaxTime == 6
\* cfg.vol_window, the length of the mid history (120 by default).
VolWindow == 2
\* Mids of the target a bounded run of on_bbo_update calls delivers.
MaxArrivals == 4
\* Requote tasks of one strategy that are in flight at a time.
MaxCycles == 1

\* config.rs:86-112, the default ExchangeConfig of each strategy; band_bps is
\* the deviation of the price trigger (backpack_mm.rs:212, market_maker.rs:211).
ExchangeConfig(k) ==
  IF k = "backpack"
  THEN [risk_pct |-> 10, requote_interval |-> 2, balance_refresh_secs |-> 60,
        min_order_size |-> 0, band_bps |-> 8]
  ELSE [risk_pct |-> 8, requote_interval |-> 3, balance_refresh_secs |-> 60,
        min_order_size |-> 10, band_bps |-> 10]

\* backpack_mm.rs:82-84 and market_maker.rs:80-82, the budget set by new.
DefaultBudget(k) ==
  IF k = "backpack"
  THEN [max_position |-> 30, base_size |-> 5, stop_loss_usd |-> 500]
  ELSE [max_position |-> 20, base_size |-> 10, stop_loss_usd |-> 500]

\* The BBOs the dispatch loop hands to the strategy: mids 1000 and 1002, and
\* a slot without prices.
MmQuotes == { [bid |-> 999, ask |-> 1001], [bid |-> 1001, ask |-> 1003],
              [bid |-> 0, ask |-> 0] }

\* What the exchange account may hold: the position with the average
\* entry price Backpack reports, and the position alone on EdgeX.
Accounts(k) ==
  IF k = "backpack"
  THEN { [position |-> 0, entry |-> 0], [position |-> 30, entry |-> 0],
         [position |-> 30, entry |-> 1040],
         [position |-> 0 - 30, entry |-> 960] }
  ELSE { [position |-> 0, entry |-> 0], [position |-> 30, entry |-> 0],
         [position |-> 0 - 30, entry |-> 0], [position |-> 90, entry |-> 0] }
\* Account equity a balance reply may carry, in USD.
Equities == { 2000 }

Max(a, b) == IF a > b THEN a ELSE b

\* One request of a task to the exchange, and its completion.
Request(call) ==
  [call |-> call, ev |-> "issue", side |-> "-", post_only |-> FALSE,
   tif |-> "-", quantity |-> 0]
\* Every order goes out without the post-only flag.
OrderRequestTaker(side, post_only, tif, quantity) ==
  [call |-> "create_order", ev |-> "issue", side |-> side,
   post_only |-> FALSE, tif |-> tif, quantity |-> quantity]
OrderRequest(side, post_only, tif, quantity) ==
  [call |-> "create_order", ev |-> "issue", side |-> side,
   post_only |-> post_only, tif |-> tif, quantity |-> quantity]
Completed(req, outcome) == [req EXCEPT !.ev = outcome]

Outcomes == {"ok", "err"}

\* Everything but a market-maker strategy, its tasks and its account.
notQuoter == << shared, w, local_versions, rpc, op, sym, loaded, local0, max,
               updated, poll_ret, symbol_id, exch, seq1, seq2, todo, msg,
               result, calls, shutdown, phase, cancels, min_spread_bps,
               arb_slots, signal, bbo_state, arb_log, opening, client >>

\* The newest mid is the one dropped from a full history.
PushDropNewest(history, m) ==
  IF Len(history) >= VolWindow THEN history ELSE Append(history, m)

\* backpack_mm.rs:184-187 and market_maker.rs:184-187: push_back, then one
\* pop_front when the history is longer than vol_window.
Push(history, m) ==
  LET h == Append(history, m) IN IF Len(h) > VolWindow THEN Tail(h) ELSE h

\* on_bbo_update: an update for another symbol or exchange is ignored; a BBO
\* with both prices sets last_mid.
MmOnBboUpdate(target, bbo) ==
  /\ mm_pc = "ready"
  /\ IF target /\ bbo.bid > 0 /\ bbo.ask > 0
     THEN /\ last_mid' = (bbo.bid + bbo.ask) \div 2
          /\ mid_history' = Push(mid_history, (bbo.bid + bbo.ask) \div 2)
     ELSE UNCHANGED << last_mid, mid_history >>
  /\ UNCHANGED << strategy, api_client, now, last_quoted_mid, last_update,
                  last_balance_refresh, max_position, base_size,
                  stop_loss_usd, mm_pc, tasks, position, entry, notQuoter,
                  resting >>

\* maybe_refresh_balance: the test that a balance request is due.
should_refresh ==
  \/ last_balance_refresh = None
  \/ now - last_balance_refresh[1] >
       ExchangeConfig(strategy).balance_refresh_secs

\* A requote decision is made whatever the interval since the last one.
should_update_always == TRUE

\* on_idle: the requote decision at time now.
should_update ==
  IF last_update = None THEN TRUE
  ELSE LET elapsed == now - last_update[1] IN
       IF elapsed < ExchangeConfig(strategy).requote_interval THEN FALSE
       ELSE \/ elapsed > 5
            \/ /\ last_quoted_mid > 0
               /\ Abs(last_mid - last_quoted_mid) * 10000 >
                    ExchangeConfig(strategy).band_bps * last_quoted_mid

\* handle.spawn(async move { ... }): the task with the values it captured; its
\* first request, for the positions, is under way.
NewTask(mp, bs, sl) ==
  [pc |-> "positions", mid_price |-> last_mid, max_position |-> mp,
   base_size |-> bs, stop_loss_usd |-> sl, live_pos |-> 0, entry_price |-> 0,
   pending |-> {}, log |-> << Request("get_positions") >>]

\* on_idle after maybe_refresh_balance, with the budget that call left.
Requote(mp, bs, sl) ==
  IF should_update
  THEN /\ last_update' = Some(now)
       /\ last_quoted_mid' = last_mid
       /\ tasks' = IF api_client THEN Append(tasks, NewTask(mp, bs, sl))
                   ELSE tasks
  ELSE UNCHANGED << last_update, last_quoted_mid, tasks >>

\* main.rs:104-106, the dispatch loop calls on_idle on the strategy.
MmCallIdle ==
  /\ mm_pc = "ready"
  /\ mm_pc' = "on_idle"
  /\ UNCHANGED << strategy, api_client, now, last_mid, last_quoted_mid,
                  last_update, last_balance_refresh, max_position, base_size,
                  stop_loss_usd, tasks, position, entry, notQuoter,
                  mid_history, arrivals, resting >>

\* on_idle up to the point where the dispatch thread either returns or is
\* parked in block_in_place(handle.block_on(get_balances())).
MmOnIdle ==
  /\ mm_pc = "on_idle"
  /\ Len(tasks) < MaxCycles \/ ~api_client \/ last_mid = 0 \/ ~should_update
  /\ IF last_mid = 0
     THEN /\ mm_pc' = "ready"
          /\ UNCHANGED << last_update, last_quoted_mid, tasks >>
     ELSE IF should_refresh /\ api_client
          THEN /\ mm_pc' = "balance"
               /\ UNCHANGED << last_update, last_quoted_mid, tasks >>
          ELSE /\ mm_pc' = "ready"
               /\ Requote(max_position, base_size, stop_loss_usd)
  /\ UNCHANGED << strategy, api_client, now, last_mid, last_balance_refresh,
                  max_position, base_size, stop_loss_usd, position, entry,
                  notQuoter,
                  mid_history, arrivals, resting >>

\* The budget maybe_refresh_balance computes from a usable balance reply.
Budget(k, equity, m) ==
  LET mp == (equity * ExchangeConfig(k).risk_pct) \div m IN
  IF k = "backpack"
  THEN [max_position |-> mp, base_size |-> Max(mp \div 3, 1),
        stop_loss_usd |-> equity * 3]
  ELSE [max_position |-> mp,
        base_size |-> Max(mp \div 2, ExchangeConfig(k).min_order_size),
        stop_loss_usd |-> equity * 3]

\* Whether maybe_refresh_balance takes a reply: Backpack needs a USDC entry,
\* EdgeX a positive balance. Amounts that do not parse count as 0.0.
Usable(k, reply) ==
  IF k = "backpack" THEN reply.kind \in {"ok", "garbled"}
  ELSE reply.kind = "ok" /\ reply.equity > 0

\* The replies to a balance request: an error, a reply without an entry for
\* the account currency, a reply whose amounts are not numbers, and a reply
\* with the account's equity.
BalanceReplies ==
  { [kind |-> "err", equity |-> 0], [kind |-> "none", equity |-> 0],
    [kind |-> "garbled", equity |-> 0] } \cup
  { [kind |-> "ok", equity |-> q] : q \in Equities }

\* The balance request completes: the dispatch thread leaves block_in_place
\* and runs the rest of on_idle.
MmBalanceReply(reply) ==
  /\ mm_pc = "balance"
  /\ Len(tasks) < MaxCycles \/ ~should_update
  /\ mm_pc' = "ready"
  /\ LET b == IF Usable(strategy, reply)
              THEN Budget(strategy, reply.equity, last_mid)
              ELSE [max_position |-> max_position, base_size |-> base_size,
                    stop_loss_usd |-> stop_loss_usd]
     IN /\ max_position' = b.max_position
        /\ base_size' = b.base_size
        /\ stop_loss_usd' = b.stop_loss_usd
        /\ Requote(b.max_position, b.base_size, b.stop_loss_usd)
  /\ last_balance_refresh' = IF Usable(strategy, reply) THEN Some(now)
                             ELSE last_balance_refresh
  /\ UNCHANGED << strategy, api_client, now, last_mid, position, entry,
                  notQuoter,
                  mid_history, arrivals, resting >>

\* Time passes.
Tick ==
  /\ now < MaxTime
  /\ now' = now + 1
  /\ UNCHANGED << strategy, api_client, last_mid, last_quoted_mid, last_update,
                  last_balance_refresh, max_position, base_size,
                  stop_loss_usd, mm_pc, tasks, position, entry, notQuoter,
                  mid_history, arrivals, resting >>

\* The exchange's book of the strategy's orders: none resting.
NoOrders == [Bid |-> 0, Ask |-> 0]

\* A cancel-all the exchange accepted takes every resting order of the
\* strategy off the book; one that failed takes none.
CancelAll(book, outcome) ==
  IF book # None /\ outcome = "ok" THEN Some(NoOrders) ELSE book

\* A post-only order the exchange accepted rests on its side of the book.
Place(book, side, outcome) ==
  IF book # None /\ outcome = "ok"
  THEN Some([book[1] EXCEPT ![side] = @ + 1]) ELSE book

taskFrame == << strategy, api_client, now, last_mid, last_quoted_mid,
               last_update, last_balance_refresh, max_position, base_size,
               stop_loss_usd, mm_pc, position, entry, notQuoter,
               mid_history, arrivals >>

\* backpack_mm.rs:258-260, the stop-loss test of a task that knows its
\* position.
StopLoss(t) ==
  /\ strategy = "backpack"
  /\ Abs(t.live_pos) > 0
  /\ t.entry_price > 0
  /\ (t.mid_price - t.entry_price) * t.live_pos < 0 - t.stop_loss_usd

\* market_maker.rs:254, the over-exposure guard.
OverExposed(t) ==
  /\ strategy = "edgex"
  /\ Abs(t.live_pos) > t.max_position * 3
  /\ t.max_position > 0

\* The positions request completes; a failure is logged and the task goes on
\* with a position of 0. Then the stop-loss order, the guard's cancel-all or
\* the cancel-all of the requote is sent.
TaskPositions(i, outcome) ==
  /\ i \in 1 .. Len(tasks)
  /\ tasks[i].pc = "positions"
  /\ LET t0 == tasks[i]
         t == [t0 EXCEPT
                 !.live_pos = IF outcome = "ok" THEN position ELSE 0,
                 !.entry_price = IF outcome = "ok" /\ strategy = "backpack"
                                 THEN entry ELSE 0,
                 !.log = Append(@, Completed(Request("get_positions"),
                                             outcome))]
     IN tasks' = [tasks EXCEPT ![i] =
          IF StopLoss(t)
          THEN [t EXCEPT !.pc = "close",
                         !.log = Append(@, OrderRequest(
                                   IF t.live_pos > 0 THEN "Ask" ELSE "Bid",
                                   FALSE, "IOC", Abs(t.live_pos)))]
          ELSE IF OverExposed(t)
          THEN [t EXCEPT !.pc = "guard",
                         !.log = Append(@, Request("cancel_all"))]
          ELSE [t EXCEPT !.pc = "cancel",
                         !.log = Append(@, Request("cancel_all"))]]
  /\ UNCHANGED resting
  /\ UNCHANGED taskFrame

\* backpack_mm.rs:275-279, the stop-loss order completes and the task ends.
TaskClose(i, outcome) ==
  /\ i \in 1 .. Len(tasks)
  /\ tasks[i].pc = "close"
  /\ tasks' = [tasks EXCEPT ![i].pc = "done",
                 ![i].log = Append(@, Completed(@[Len(@)], outcome))]
  /\ UNCHANGED resting
  /\ UNCHANGED taskFrame

\* market_maker.rs:261-262, the guard's cancel-all completes and the task ends.
TaskGuard(i, outcome) ==
  /\ i \in 1 .. Len(tasks)
  /\ tasks[i].pc = "guard"
  /\ tasks' = [tasks EXCEPT ![i].pc = "done",
                 ![i].log = Append(@, Completed(Request("cancel_all"),
                                                outcome))]
  /\ resting' = CancelAll(resting, outcome)
  /\ UNCHANGED taskFrame

\* backpack_mm.rs:312-313 and market_maker.rs:293-294, the frozen side.
Frozen(side, live_pos, mp) ==
  IF side = "Bid" THEN live_pos >= mp ELSE live_pos <= 0 - mp

\* backpack_mm.rs:308-313 and market_maker.rs:291-294, the size of one side.
QuoteSize(side, t) ==
  LET mp == t.max_position
      scaled ==
        IF strategy = "edgex" THEN t.base_size
        ELSE IF mp > 0 /\ 100 * (5 * mp - 4 * Abs(t.live_pos)) > 5 * mp
             THEN (t.base_size * (5 * mp - 4 * Abs(t.live_pos))) \div (5 * mp)
             ELSE t.base_size \div 100
  IN IF Frozen(side, t.live_pos, mp) THEN 0 ELSE scaled

\* backpack_mm.rs:320 and market_maker.rs:308, the smallest size submitted.
MinSize == IF strategy = "edgex"
           THEN Max(ExchangeConfig("edgex").min_order_size, 1) ELSE 1

\* The quotes of a task, bid first: the sides whose size is not too small.
QuoteSides(t) ==
  (IF QuoteSize("Bid", t) < MinSize THEN << >> ELSE << "Bid" >>) \o
  (IF QuoteSize("Ask", t) < MinSize THEN << >> ELSE << "Ask" >>)

\* The requote's cancel-all completes; a failure is logged. The futures of
\* the two quotes are built and join_all sends their requests (on EdgeX the
\* request of an order is only sent when the order could be signed).
TaskCancel(i, outcome, signs) ==
  /\ i \in 1 .. Len(tasks)
  /\ tasks[i].pc = "cancel"
  /\ strategy = "backpack" => signs
  /\ LET t == tasks[i]
         sides == IF signs THEN QuoteSides(t) ELSE << >>
         orders == [k \in 1 .. Len(sides) |->
                      OrderRequest(sides[k], TRUE, "-",
                                   QuoteSize(sides[k], t))]
     IN tasks' = [tasks EXCEPT ![i] =
          [t EXCEPT !.pc = IF sides = << >> THEN "done" ELSE "orders",
                    !.pending = { sides[k] : k \in 1 .. Len(sides) },
                    !.log = (Append(@, Completed(Request("cancel_all"),
                                                 outcome))) \o orders]]
  /\ resting' = CancelAll(resting, outcome)
  /\ UNCHANGED taskFrame

\* One of the two orders completes; the task ends with the last of them.
TaskOrder(i, side, outcome) ==
  /\ i \in 1 .. Len(tasks)
  /\ tasks[i].pc = "orders"
  /\ side \in tasks[i].pending
  /\ LET t == tasks[i] IN
     tasks' = [tasks EXCEPT ![i] =
       [t EXCEPT !.pc = IF t.pending = {side} THEN "done" ELSE "orders",
                 !.pending = @ \ {side},
                 !.log = Append(@, Completed(
                           OrderRequest(side, TRUE, "-", QuoteSize(side, t)),
                           outcome))]]
  /\ resting' = Place(resting, side, outcome)
  /\ UNCHANGED taskFrame

\* The executor drops a task that has ended.
TaskEnd(i) ==
  /\ i \in 1 .. Len(tasks)
  /\ tasks[i].pc = "done"
  /\ tasks' = [k \in 1 .. (Len(tasks) - 1) |->
                IF k < i THEN tasks[k] ELSE tasks[k + 1]]
  /\ UNCHANGED resting
  /\ UNCHANGED taskFrame

\* The executor runs the requote tasks.
TaskStep ==
  \/ \E i \in 1 .. MaxCycles : TaskEnd(i)
  \/ \E i \in 1 .. MaxCycles, outcome \in Outcomes : TaskPositions(i, outcome)
  \/ \E i \in 1 .. MaxCycles, outcome \in Outcomes : TaskClose(i, outcome)
  \/ \E i \in 1 .. MaxCycles, outcome \in Outcomes : TaskGuard(i, outcome)
  \/ \E i \in 1 .. MaxCycles, outcome \in Outcomes, signs \in BOOLEAN :
       TaskCancel(i, outcome, signs)
  \/ \E i \in 1 .. MaxCycles, side \in {"Bid", "Ask"}, outcome \in Outcomes :
       TaskOrder(i, side, outcome)

\* The strategy of a process in which no quote of its target arrives.
QuoterAtRest ==
  /\ strategy = "backpack"
  /\ api_client = FALSE
  /\ now = 0
  /\ last_mid = 0
  /\ last_quoted_mid = 0
  /\ last_update = None
  /\ last_balance_refresh = None
  /\ max_position = DefaultBudget("backpack").max_position
  /\ base_size = DefaultBudget("backpack").base_size
  /\ stop_loss_usd = DefaultBudget("backpack").stop_loss_usd
  /\ mm_pc = "ready"
  /\ tasks = << >>
  /\ position = 0
  /\ entry = 0
  /\ mid_history = << >>
  /\ arrivals = << >>
  /\ resting = None

\* ------------------------------------------------- a client of the reader
\* Any sequence of calls of the public operations of ShmReader.
CallTryPoll ==
  rpc = "returned" /\ TryPollScan(0, NoVersions, local_versions) /\ calls' = << >>
ContTryPoll ==
  rpc = "try_poll" /\ TryPollScan(sym, loaded, local0) /\ UNCHANGED calls
CallPollAll(m) ==
  /\ rpc = "returned"
  /\ PollAllScan(0, m, << >>, NoVersions, local_versions)
  /\ calls' = << >>
ContPollAll ==
  /\ rpc = "poll_all"
  /\ PollAllScan(sym, max, updated, loaded, local0)
  /\ UNCHANGED calls
CallReadBbo(s, e) ==
  rpc = "returned" /\ ReadBegin("read_bbo", s, e) /\ calls' = << >>
CallReadAll(s) ==
  rpc = "returned" /\ ReadBegin("read_all_exchanges", s, 0) /\ calls' = << >>

\* The flag is never seen set.
ShutdownIgnored == FALSE

\* main.rs:86, the load of the shutdown flag at the top of the loop.
ShutdownRequested == shutdown

\* main.rs:85, the loop is at the top of an iteration.
AtLoopTop ==
  phase = "loop" /\ rpc = "returned" /\ op \in {"open", "dispatch", "on_idle"}

\* main.rs:86-91, the flag is not set: the loop calls try_poll.
MainPoll ==
  /\ AtLoopTop
  /\ ~ShutdownRequested
  /\ TryPollScan(0, NoVersions, local_versions)
  /\ calls' = << >>

\* main.rs:92-93, Some(symbol_id): read_all_exchanges(symbol_id).
MainReadAll ==
  /\ rpc = "returned"
  /\ op = "try_poll"
  /\ poll_ret # None
  /\ ReadBegin("read_all_exchanges", poll_ret[1], 0)
  /\ UNCHANGED calls

\* main.rs:94-100, the array is fanned out to the strategies.
MainDispatch ==
  /\ rpc = "returned"
  /\ op = "read_all_exchanges"
  /\ op' = "dispatch"
  /\ calls' = DispatchFrom(symbol_id, result, 0)
  /\ UNCHANGED << shared, w, local_versions, rpc, sym, loaded, local0, max,
                  updated, poll_ret, symbol_id, exch, seq1, seq2, todo, msg,
                  result, outside >>

\* main.rs:102-112, None: on_idle on every strategy.
MainIdle ==
  /\ rpc = "returned"
  /\ op = "try_poll"
  /\ poll_ret = None
  /\ op' = "on_idle"
  /\ calls' = IdleCalls
  /\ UNCHANGED << shared, w, local_versions, rpc, sym, loaded, local0, max,
                  updated, poll_ret, symbol_id, exch, seq1, seq2, todo, msg,
                  result, outside >>

Init ==
  /\ symbol_versions = [s \in Symbols |-> 0]
  /\ \E g \in InitPayloads :
       bbo_matrix = [s \in Symbols |-> [e \in Exchanges |->
                       [seqlock |-> 0, bid |-> g.bid, ask |-> g.ask]]]
  /\ w = WriterIdle
  /\ local_versions = NoVersions
  /\ rpc = "returned"
  /\ op = "open"
  /\ sym = 0
  /\ loaded = NoVersions
  /\ local0 = NoVersions
  /\ max = 0
  /\ updated = << >>
  /\ poll_ret = None
  /\ symbol_id = 0
  /\ exch = 0
  /\ seq1 = 0
  /\ seq2 = 0
  /\ todo = {}
  /\ msg = DefaultMsg
  /\ result = NoResult
  /\ calls = << >>
  /\ shutdown = FALSE
  /\ phase = "loop"
  /\ cancels = << >>
  /\ min_spread_bps = F(25)
  /\ arb_slots = NoSlots
  /\ signal = None
  /\ bbo_state = NoSlots
  /\ arb_log = None
  /\ file_len = ExpectedSize
  /\ num_symbols = MaxSymbols
  /\ open_pc = "done"
  /\ open_ret = "Ok"
  /\ mapped = FALSE
  /\ max_symbols = MaxSymbols
  /\ access = "none"
  /\ seen = NoneSeen
  /\ QuoterAtRest

\* The client: any call sequence, and main's use of what the calls return.
Next ==
  \/ Writer
  \/ CallTryPoll
  \/ ContTryPoll
  \/ \E m \in 0 .. MaxSymbols : CallPollAll(m)
  \/ ContPollAll
  \/ \E s \in Symbols, e \in Exchanges : CallReadBbo(s, e)
  \/ \E s \in Symbols : CallReadAll(s)
  \/ ReadStrict
  \/ MainDispatch
  \/ MainIdle

Spec == Init /\ [][Next]_vars

\* main.rs:85-114, the body of the loop.
MainLoop ==
  \/ MainPoll
  \/ ContTryPoll
  \/ MainReadAll
  \/ ReadStrict
  \/ MainDispatch
  \/ MainIdle

MainNext == Writer \/ MainLoop

MainSpec == Init /\ [][MainNext]_vars

\* main.rs:80-83, the Ctrl+C task (on a worker thread of the runtime) sets the
\* flag.
SetShutdown ==
  /\ ~shutdown
  /\ shutdown' = TRUE
  /\ UNCHANGED << shared, w, local_versions, rpc, op, sym, loaded, local0, max,
                  updated, poll_ret, symbol_id, exch, seq1, seq2, todo, msg,
                  result, calls, phase, cancels, min_spread_bps, arb_slots,
                  signal, bbo_state, arb_log, opening, client, quoter >>

\* main.rs:86-89, the flag is set: break.
MainBreak ==
  /\ AtLoopTop
  /\ ShutdownRequested
  /\ phase' = "cancel_backpack"
  /\ UNCHANGED << shared, w, local_versions, rpc, op, sym, loaded, local0, max,
                  updated, poll_ret, symbol_id, exch, seq1, seq2, todo, msg,
                  result, calls, shutdown, cancels, min_spread_bps, arb_slots,
                  signal, bbo_state, arb_log, opening, client, quoter >>

\* What becomes of one cancellation: no client (no credentials in the env
\* file, or the client cannot be built), Ok, or Err (logged).
CancelOutcomes == {"no_client", "ok", "err"}

\* main.rs:119-146, the Backpack cancellation.
CancelBackpack(outcome) ==
  /\ phase = "cancel_backpack"
  /\ cancels' = Append(cancels, [exchange |-> "backpack", outcome |-> outcome])
  /\ resting' = IF strategy = "backpack" THEN CancelAll(resting, outcome)
                ELSE resting
  /\ phase' = "cancel_edgex"
  /\ UNCHANGED << shared, w, local_versions, rpc, op, sym, loaded, local0, max,
                  updated, poll_ret, symbol_id, exch, seq1, seq2, todo, msg,
                  result, calls, shutdown, min_spread_bps, arb_slots, signal,
                  bbo_state, arb_log, opening, client, strategyState >>

\* main.rs:148-178, the EdgeX cancellation, then "shutdown complete".
CancelEdgeX(outcome) ==
  /\ phase = "cancel_edgex"
  /\ cancels' = Append(cancels, [exchange |-> "edgex", outcome |-> outcome])
  /\ resting' = IF strategy = "edgex" THEN CancelAll(resting, outcome)
                ELSE resting
  /\ phase' = "complete"
  /\ UNCHANGED << shared, w, local_versions, rpc, op, sym, loaded, local0, max,
                  updated, poll_ret, symbol_id, exch, seq1, seq2, todo, msg,
                  result, calls, shutdown, min_spread_bps, arb_slots, signal,
                  bbo_state, arb_log, opening, client, strategyState >>

\* main.rs:86-89 and 116-178, the way out of the loop.
MainExit ==
  \/ MainBreak
  \/ \E outcome \in CancelOutcomes : CancelBackpack(outcome)
  \/ \E outcome \in CancelOutcomes : CancelEdgeX(outcome)

\* The two arbitrage scanners on every sequence of slot updates of one symbol,
\* for engines built with each threshold.
ArbInit ==
  /\ symbol_versions = [s \in Symbols |-> 0]
  /\ bbo_matrix = [s \in Symbols |-> [e \in Exchanges |-> DefaultMsg]]
  /\ w = WriterIdle
  /\ local_versions = NoVersions
  /\ rpc = "returned"
  /\ op = "open"
  /\ sym = 0
  /\ loaded = NoVersions
  /\ local0 = NoVersions
  /\ max = 0
  /\ updated = << >>
  /\ poll_ret = None
  /\ symbol_id = 0
  /\ exch = 0
  /\ seq1 = 0
  /\ seq2 = 0
  /\ todo = {}
  /\ msg = DefaultMsg
  /\ result = NoResult
  /\ calls = << >>
  /\ shutdown = FALSE
  /\ phase = "loop"
  /\ cancels = << >>
  /\ min_spread_bps \in Thresholds
  /\ arb_slots = NoSlots
  /\ signal = None
  /\ bbo_state = NoSlots
  /\ arb_log = None
  /\ file_len = ExpectedSize
  /\ num_symbols = MaxSymbols
  /\ open_pc = "done"
  /\ open_ret = "Ok"
  /\ mapped = FALSE
  /\ max_symbols = MaxSymbols
  /\ access = "none"
  /\ seen = NoneSeen
  /\ QuoterAtRest

\* The arrays read_all_exchanges returns for the symbol in the model: per
\* slot one of two books that cross each other, or the default record (a
\* slot never written, withdrawn, in mid-write or torn).
PassQuotes ==
  { ArbQuote(2403, 2404, 2, 1, 1), ArbQuote(2396, 2397, 1, 3, 2),
    DefaultQuote }

\* main.rs:95, the test of the dispatch loop, on a snapshot.
PassesFilterQuote(q) == FGt(q.bid_price, FZero) /\ FGt(q.ask_price, FZero)

\* main.rs:91-93, try_poll returned the symbol and read_all_exchanges returns
\* slots; the loop over the array starts at its first element.
ReadPass(slots) ==
  /\ exch >= NumArbExchanges
  /\ arb_slots' = slots
  /\ exch' = 0
  /\ UNCHANGED << shared, w, local_versions, rpc, op, sym, loaded, local0, max,
                  updated, poll_ret, symbol_id, seq1, seq2, todo, msg, result,
                  calls, shutdown, phase, cancels, min_spread_bps, signal,
                  bbo_state, arb_log, opening, client, quoter >>

\* main.rs:94-100, one round of the loop over the array: the slot at index
\* exch is handed to the engine if it passes the filter, and skipped if not.
DispatchSlot ==
  /\ exch < NumArbExchanges
  /\ exch' = exch + 1
  /\ IF PassesFilterQuote(arb_slots[exch])
     THEN ArbStore(exch, arb_slots[exch])
     ELSE UNCHANGED << bbo_state, arb_log >>
  /\ UNCHANGED << shared, w, local_versions, rpc, op, sym, loaded, local0, max,
                  updated, poll_ret, symbol_id, seq1, seq2, todo, msg, result,
                  calls, shutdown, phase, cancels, min_spread_bps, arb_slots,
                  signal, opening, client, quoter >>

\* The engine as the dispatch loop feeds it, one read pass after another.
PassNext ==
  \/ \E slots \in [ArbExchanges -> PassQuotes] : ReadPass(slots)
  \/ DispatchSlot

PassSpec == ArbInit /\ [][PassNext]_vars

ArbNext ==
  \/ \E e \in ArbExchanges, bbo \in ArbQuotes : ArbCheck(e, bbo)
  \/ \E e \in ArbExchanges, bbo \in ArbQuotes : ArbOnBboUpdate(e, bbo)

ArbSpec == ArbInit /\ [][ArbNext]_vars

\* A market-maker strategy as the dispatch loop drives it: on_bbo_update and
\* on_idle calls in any order on one thread, the executor running the tasks
\* the strategy spawns, and the clock. new found credentials or not; the
\* account holds any of the positions.
QuoterStart ==
  /\ symbol_versions = [s \in Symbols |-> 0]
  /\ bbo_matrix = [s \in Symbols |-> [e \in Exchanges |-> DefaultMsg]]
  /\ w = WriterIdle
  /\ local_versions = NoVersions
  /\ rpc = "returned"
  /\ op = "open"
  /\ sym = 0
  /\ loaded = NoVersions
  /\ local0 = NoVersions
  /\ max = 0
  /\ updated = << >>
  /\ poll_ret = None
  /\ symbol_id = 0
  /\ exch = 0
  /\ seq1 = 0
  /\ seq2 = 0
  /\ todo = {}
  /\ msg = DefaultMsg
  /\ result = NoResult
  /\ calls = << >>
  /\ shutdown = FALSE
  /\ phase = "loop"
  /\ cancels = << >>
  /\ min_spread_bps = F(25)
  /\ arb_slots = NoSlots
  /\ signal = None
  /\ bbo_state = NoSlots
  /\ arb_log = None
  /\ file_len = ExpectedSize
  /\ num_symbols = MaxSymbols
  /\ open_pc = "done"
  /\ open_ret = "Ok"
  /\ mapped = FALSE
  /\ max_symbols = MaxSymbols
  /\ access = "none"
  /\ seen = NoneSeen
  /\ strategy \in MmStrategies
  /\ api_client \in BOOLEAN
  /\ now = 0
  /\ last_mid = 0
  /\ last_quoted_mid = 0
  /\ last_update = None
  /\ last_balance_refresh = None
  /\ max_position = DefaultBudget(strategy).max_position
  /\ base_size = DefaultBudget(strategy).base_size
  /\ stop_loss_usd = DefaultBudget(strategy).stop_loss_usd
  /\ mm_pc = "ready"
  /\ tasks = << >>
  /\ \E a \in Accounts(strategy) : position = a.position /\ entry = a.entry
  /\ mid_history = << >>
  /\ arrivals = << >>

\* The same where the exchange's book is not observed.
QuoterInit == QuoterStart /\ resting = None

\* main.rs:96-98, the dispatch loop hands a BBO to the strategy.
MmDispatchBbo(target, bbo) ==
  MmOnBboUpdate(target, bbo) /\ UNCHANGED arrivals

QuoterNext ==
  \/ \E target \in BOOLEAN, bbo \in MmQuotes : MmDispatchBbo(target, bbo)
  \/ MmCallIdle
  \/ MmOnIdle
  \/ \E reply \in BalanceReplies : MmBalanceReply(reply)
  \/ Tick
  \/ TaskStep

QuoterSpec == QuoterInit /\ [][QuoterNext]_vars

\* A market-maker strategy with credentials whose exchange starts with none
\* of its orders on the book, driven by the loop of main until Ctrl+C; the
\* cleanup that follows the loop; and the runtime's worker threads, which run
\* the requote tasks until block_on returns.
BookInit ==
  /\ QuoterStart
  /\ api_client
  /\ position = 0
  /\ resting = Some(NoOrders)

\* The BBOs the loop dispatches here: one quote of the target with mid 1000,
\* and a slot the strategies ignore.
BookQuotes == { [bid |-> 999, ask |-> 1001], [bid |-> 0, ask |-> 0] }

\* main.rs:94-99, an iteration of the loop that dispatches a BBO.
LoopBbo(target, bbo) == phase = "loop" /\ MmDispatchBbo(target, bbo)

\* main.rs:102-106, an iteration of the loop that calls on_idle.
LoopIdle ==
  /\ phase = "loop"
  /\ MmCallIdle \/ MmOnIdle \/ \E reply \in BalanceReplies : MmBalanceReply(reply)

\* main.rs:86-89, the break: the dispatch thread is in no strategy call.
LoopBreak == mm_pc = "ready" /\ MainBreak

\* main.rs:116-178, the two cancellations of the cleanup.
Cleanup ==
  \/ \E outcome \in CancelOutcomes : CancelBackpack(outcome)
  \/ \E outcome \in CancelOutcomes : CancelEdgeX(outcome)

\* The worker threads run the tasks that were spawned; nothing awaits or
\* aborts them before block_on returns (main.rs:179).
RunTasks == phase # "complete" /\ TaskStep

BookNext ==
  \/ \E target \in BOOLEAN, bbo \in BookQuotes : LoopBbo(target, bbo)
  \/ LoopIdle
  \/ Tick
  \/ RunTasks
  \/ SetShutdown
  \/ LoopBreak
  \/ Cleanup

BookSpec == BookInit /\ [][BookNext]_vars

\* Any sequence of on_bbo_update calls on a market-maker strategy, with the
\* record of the mids its target delivered.
DeliverBbo(target, bbo) ==
  /\ Len(arrivals) < MaxArrivals
  /\ MmOnBboUpdate(target, bbo)
  /\ arrivals' = IF target /\ bbo.bid > 0 /\ bbo.ask > 0
                 THEN Append(arrivals, (bbo.bid + bbo.ask) \div 2)
                 ELSE arrivals

HistoryNext == \E target \in BOOLEAN, bbo \in MmQuotes : DeliverBbo(target, bbo)

HistorySpec == QuoterInit /\ [][HistoryNext]_vars

\* A feeder that keeps no discipline: it stores any seq into any slot at any
\* moment, and may stop for ever with odd seqs in place.
ScribbleSeqs == 0 .. 3

Scribble(s, e, v) ==
  /\ bbo_matrix[s][e].seqlock # v
  /\ bbo_matrix' = [bbo_matrix EXCEPT ![s][e].seqlock = v]
  /\ UNCHANGED << symbol_versions, w, local_versions, rpc, op, sym, loaded,
                  local0, max, updated, poll_ret, symbol_id, exch, seq1, seq2,
                  todo, msg, result, calls, outside >>

\* read_bbo and read_all_exchanges against that feeder; the reading thread
\* keeps running.
AnyWriterNext ==
  \/ \E s \in Symbols, e \in Exchanges, v \in ScribbleSeqs : Scribble(s, e, v)
  \/ \E s \in Symbols, e \in Exchanges : CallReadBbo(s, e)
  \/ \E s \in Symbols : CallReadAll(s)
  \/ ReadStrict

AnyWriterSpec == Init /\ [][AnyWriterNext]_vars /\ WF_vars(ReadStrict)

\* ------------------------------------------- a client that reads again
\* What the client keeps for a slot when a read of it returns r: the record
\* before it, if it has one, and r. A sentinel is not kept on its own.
Keep(kept, r) ==
  IF kept = << >>
  THEN IF r.bbo = DefaultMsg THEN << >> ELSE << r >>
  ELSE << kept[Len(kept)], r >>

\* The feeder; what the client kept of a slot is dropped as soon as the
\* feeder writes to the slot. An advance of the version writes to no slot.
RereadWriter ==
  /\ \/ \E s \in Symbols, e \in Exchanges, q \in Quotes :
          WBegin(s, e, q) /\ seen' = [seen EXCEPT ![s][e] = << >>]
     \/ \E f \in PayloadFields :
          WStore(f) /\ seen' = [seen EXCEPT ![w.s][w.e] = << >>]
     \/ WCommit /\ seen' = [seen EXCEPT ![w.s][w.e] = << >>]
     \/ WAdvance /\ UNCHANGED seen
     \/ \E s \in Symbols : WTouch(s) /\ UNCHANGED seen
  /\ UNCHANGED << local_versions, rpc, op, sym, loaded, local0, max, updated,
                  poll_ret, symbol_id, exch, seq1, seq2, todo, msg, result,
                  calls, aside >>

\* The steps of read_bbo_strict for a caller that keeps what it returns, with
\* the version read_bbo / read_all_exchanges loaded before the read.
RereadStrict ==
  /\ StrictStep
  /\ seen' = IF exch' = exch THEN seen
             ELSE [seen EXCEPT ![symbol_id][exch] =
                     Keep(@, [bbo |-> result'[exch],
                              version |-> local_versions[symbol_id]])]

\* Any sequence of read_bbo and read_all_exchanges calls beside the feeder.
RereadNext ==
  \/ RereadWriter
  \/ \E s \in Symbols, e \in Exchanges : CallReadBbo(s, e)
  \/ \E s \in Symbols : CallReadAll(s)
  \/ RereadStrict

RereadSpec == Init /\ [][RereadNext]_vars

\* ----------------------------------------------- a region that regresses
\* Seqs a compromised region may show in a slot: two closed writes, so that a
\* slot can go from the later one back to the earlier one.
RegressSeqs == {2, 4}

\* The steps of read_bbo_strict for an observer that keeps, per slot, the last
\* two returns together with the seq the read loaded first.
ObservedStrict ==
  /\ StrictStep
  /\ seen' = IF exch' = exch THEN seen
             ELSE [seen EXCEPT ![symbol_id][exch] =
                     Keep(@, [bbo |-> result'[exch],
                              version |-> local_versions[symbol_id],
                              seq |-> seq1'])]

\* read_bbo and read_all_exchanges of the first symbol on a region where the
\* slots of that symbol move between the seqs of RegressSeqs in any order.
\* The slots of a symbol are read independently of every other symbol's.
RegressNext ==
  \/ \E e \in Exchanges, v \in RegressSeqs : Scribble(0, e, v)
  \/ \E e \in Exchanges : CallReadBbo(0, e)
  \/ CallReadAll(0)
  \/ ObservedStrict

RegressSpec == Init /\ [][RegressNext]_vars

\* ------------------------------------------------------ ShmReader::open
\* Everything but the state of open and the handle it builds.
notOpening == << shared, w, rpc, op, sym, loaded, local0, max, updated,
                poll_ret, symbol_id, exch, seq1, seq2, todo, msg, result,
                calls, shutdown, phase, cancels, min_spread_bps, arb_slots,
                signal, bbo_state, arb_log, client, quoter >>

\* shm_reader.rs:79, open(path, n) is called on a file of length len (-1: no
\* such file); after a failure the attach is retried from outside.
OpenCall(len, n) ==
  /\ open_pc \in {"idle", "done"}
  /\ open_ret # "Ok"
  /\ file_len' = len
  /\ num_symbols' = n
  /\ open_pc' = "file"
  /\ open_ret' = "none"
  /\ UNCHANGED << notOpening, local_versions, mapped, max_symbols, access >>

\* shm_reader.rs:80, File::open(path)?
OpenFile ==
  /\ open_pc = "file"
  /\ IF file_len < 0
     THEN open_ret' = "Err" /\ open_pc' = "done"
     ELSE open_ret' = open_ret /\ open_pc' = "map"
  /\ UNCHANGED << notOpening, local_versions, file_len, num_symbols, mapped,
                  max_symbols, access >>

\* shm_reader.rs:81, Mmap::map(&file)?; mapping an empty file fails or gives
\* an empty map, depending on the memmap2 version.
OpenMap ==
  /\ open_pc = "map"
  /\ \/ mapped' = TRUE /\ open_pc' = "assert" /\ open_ret' = open_ret
     \/ /\ file_len = 0
        /\ mapped' = mapped /\ open_pc' = "done" /\ open_ret' = "Err"
  /\ UNCHANGED << notOpening, local_versions, file_len, num_symbols,
                  max_symbols, access >>

\* shm_reader.rs:83-89, assert!(mmap.len() >= expected_size): a panic, which
\* drops the map while unwinding.
OpenAssert ==
  /\ open_pc = "assert"
  /\ IF file_len >= ExpectedSize
     THEN open_pc' = "return" /\ open_ret' = open_ret /\ mapped' = mapped
     ELSE open_pc' = "done" /\ open_ret' = "panic" /\ mapped' = FALSE
  /\ UNCHANGED << notOpening, local_versions, file_len, num_symbols,
                  max_symbols, access >>

\* shm_reader.rs:91-98, the handle is built from the pointer; the local mmap
\* is not stored in it and is dropped when open returns, which unmaps the
\* region.
OpenReturn ==
  /\ open_pc = "return"
  /\ local_versions' = NoVersions
  /\ max_symbols' = Min(num_symbols, MaxSymbols)
  /\ open_ret' = "Ok"
  /\ open_pc' = "done"
  /\ mapped' = FALSE
  /\ UNCHANGED << notOpening, file_len, num_symbols, access >>

\* shm_reader.rs:102-108, a load through the handle. A load from an address
\* that is not mapped is undefined: it faults, or it reads whatever the
\* process has mapped there since.
HandleLoad(s) ==
  /\ open_ret = "Ok"
  /\ access # "fault"
  /\ s < max_symbols
  /\ IF mapped THEN access' = "region" ELSE access' \in {"fault", "stray"}
  /\ UNCHANGED << notOpening, local_versions, file_len, num_symbols, open_pc,
                  open_ret, mapped, max_symbols >>

OpenInit ==
  /\ symbol_versions = [s \in Symbols |-> 0]
  /\ bbo_matrix = [s \in Symbols |-> [e \in Exchanges |-> DefaultMsg]]
  /\ w = WriterIdle
  /\ local_versions = NoVersions
  /\ rpc = "returned"
  /\ op = "open"
  /\ sym = 0
  /\ loaded = NoVersions
  /\ local0 = NoVersions
  /\ max = 0
  /\ updated = << >>
  /\ poll_ret = None
  /\ symbol_id = 0
  /\ exch = 0
  /\ seq1 = 0
  /\ seq2 = 0
  /\ todo = {}
  /\ msg = DefaultMsg
  /\ result = NoResult
  /\ calls = << >>
  /\ shutdown = FALSE
  /\ phase = "loop"
  /\ cancels = << >>
  /\ min_spread_bps = F(25)
  /\ arb_slots = NoSlots
  /\ signal = None
  /\ bbo_state = NoSlots
  /\ arb_log = None
  /\ file_len = 0 - 1
  /\ num_symbols = 0
  /\ open_pc = "idle"
  /\ open_ret = "none"
  /\ mapped = FALSE
  /\ max_symbols = 0
  /\ access = "none"
  /\ seen = NoneSeen
  /\ QuoterAtRest

OpenNext ==
  \/ \E len \in (0 - 1) .. (ExpectedSize + 1), n \in 0 .. (MaxSymbols + 1) :
       OpenCall(len, n)
  \/ OpenFile
  \/ OpenMap
  \/ OpenAssert
  \/ OpenReturn
  \/ \E s \in Symbols : HandleLoad(s)

OpenSpec == OpenInit /\ [][OpenNext]_vars

\* The dispatch thread spins: the loop always takes its next step. The feeder
\* advances the version after the slot write it has committed.
WriterAdvance ==
  /\ WAdvance
  /\ UNCHANGED << local_versions, rpc, op, sym, loaded, local0, max, updated,
                  poll_ret, symbol_id, exch, seq1, seq2, todo, msg, result,
                  calls, outside >>

MainFairness == WF_vars(MainLoop) /\ WF_vars(WriterAdvance)

\* The loop with a feeder that stops after MaxAdvances advances.
MainFair == MainSpec /\ MainFairness

\* A change of origin of one symbol's counters: the same amount is taken
\* from versions[s] and local_versions[s]. The reader only compares the two
\* and copies one into the other, so no step of it can tell the difference;
\* it lets a feeder that never stops advancing run in a finite state space.
Renumber(s) ==
  /\ rpc = "returned"
  /\ op \in {"dispatch", "on_idle"}
  /\ local_versions[s] > 0
  /\ symbol_versions' = [symbol_versions EXCEPT ![s] = @ - local_versions[s]]
  /\ local_versions' = [local_versions EXCEPT ![s] = 0]
  /\ UNCHANGED << bbo_matrix, w, rpc, op, sym, loaded, local0, max, updated,
                  poll_ret, symbol_id, exch, seq1, seq2, todo, msg, result,
                  calls, outside >>

\* The loop with a feeder that may advance versions for ever (it is never
\* more than MaxAdvances advances ahead of the reader, and publishes at most
\* MaxAdvances slot writes).
SteadyNext == MainNext \/ \E s \in Symbols : Renumber(s)

SteadySpec == Init /\ [][SteadyNext]_vars /\ MainFairness

\* The loop with a feeder that may advance for ever and a Ctrl+C that may come
\* at any moment. The thread of main keeps running (the loop spins, the
\* cleanup requests complete with Ok or Err); nothing is assumed of Ctrl+C.
ShutdownNext == SteadyNext \/ SetShutdown \/ MainExit

ShutdownSpec ==
  Init /\ [][ShutdownNext]_vars /\ WF_vars(MainLoop \/ MainExit)

\* ------------------------------------------------------------ properties
\* The record the strict read that has just returned gave back, and its slot.
ReadValue == result[exch - 1]
ReadSlot == bbo_matrix[symbol_id][exch - 1]

\* C1: every record a strict read returns that is not the sentinel is the
\* payload of one completed publish to that slot: its prices are those of one
\* published quote, its seq is even and non-zero, and it is the whole content
\* the slot holds under that seq (checked while the slot still shows it, which
\* is the case in the state the read returns in).
C1_UntornRead ==
  (JustRead /\ ReadValue # DefaultMsg) =>
     /\ [bid |-> ReadValue.bid, ask |-> ReadValue.ask] \in Quotes
     /\ ReadValue.seqlock % 2 = 0
     /\ ReadValue.seqlock # 0
     /\ (ReadSlot.seqlock = ReadValue.seqlock => ReadValue = ReadSlot)

\* A payload of the second publish to a slot is returned while the writer is
\* idle again.
C1_Witness ==
  /\ JustRead
  /\ ReadValue # DefaultMsg
  /\ ReadValue.seqlock = 4

\* C2: if a strict read returns a payload, the seq it loaded before the copy
\* and the seq it loaded after the copy were equal, even and non-zero.
C2_SeqEqualEven ==
  (JustRead /\ ReadValue # DefaultMsg) =>
     /\ seq1 = seq2
     /\ seq1 % 2 = 0
     /\ seq1 # 0

\* A payload is returned while the writer is in the middle of a publish.
C2_Witness ==
  /\ JustRead
  /\ ReadValue # DefaultMsg
  /\ w.pc = "store"

\* C3: a slot whose seq is 0 is read as the sentinel whatever its payload
\* bytes are, and no on_bbo_update call is made for it.
C3_ZeroSeqNeverValid ==
  /\ (JustRead /\ ReadSlot.seqlock = 0) => ReadValue = DefaultMsg
  /\ \A i \in 1 .. Len(calls) :
       calls[i].fn = "on_bbo_update" =>
         bbo_matrix[calls[i].symbol_id][calls[i].exchange_id].seqlock # 0

\* The array of a symbol with a never-written slot that holds non-zero
\* payload bytes has been read and dispatched.
C3_Witness ==
  /\ op = "dispatch"
  /\ calls # << >>
  /\ \E e \in Exchanges : /\ bbo_matrix[symbol_id][e].seqlock = 0
                          /\ bbo_matrix[symbol_id][e].bid > 0

\* C4: try_poll returns Some(s) for the first s, in scan order, whose loaded
\* version exceeds the local one, stores that version and changes no other
\* local version; it returns None, changing nothing, exactly when no loaded
\* version exceeds its local version.
C4_TryPollFirstAdvanced ==
  (op = "try_poll" /\ rpc = "returned") =>
     IF poll_ret = None
     THEN /\ local_versions = local0
          /\ \A s \in Symbols : ~(loaded[s] > local0[s])
     ELSE LET s == poll_ret[1] IN
          /\ s \in Symbols
          /\ loaded[s] > local0[s]
          /\ local_versions = [local0 EXCEPT ![s] = loaded[s]]
          /\ \A j \in Symbols : j < s => ~(loaded[j] > local0[j])

\* try_poll skipped symbol 0 and returned symbol 1, whose version had
\* advanced twice.
C4_Witness ==
  /\ op = "try_poll"
  /\ rpc = "returned"
  /\ poll_ret = Some(1)
  /\ loaded[1] = local0[1] + 2

\* C5: no step decreases a local version.
C5_LocalVersionsMonotonic ==
  [][\A s \in Symbols : local_versions'[s] >= local_versions[s]]_vars

\* read_bbo has stored a version two advances ahead.
C5_Witness ==
  /\ op = "read_bbo"
  /\ local_versions[symbol_id] >= 2

\* Symbol s has an advance the reader has not seen.
Pending(s) == symbol_versions[s] > local_versions[s]

\* The reader holds a completed read of slot (s, e) that equals the slot.
Observed(s, e) ==
  /\ op \in {"read_all_exchanges", "dispatch"}
  /\ symbol_id = s
  /\ exch > e
  /\ result[e] = bbo_matrix[s][e]

EvenSeqs == { 2 * k : k \in 1 .. MaxAdvances }

\* C6: whenever versions[s] exceeds local_versions[s], a later try_poll
\* returns Some(s) (or the advance is taken by the read_all_exchanges(s) that
\* follows such a return), whatever the writer does to other symbols.
C6_NoLostWakeup ==
  \A s \in Symbols :
    Pending(s) ~> \/ op = "try_poll" /\ rpc = "returned" /\ poll_ret = Some(s)
                  \/ op = "read_all_exchanges" /\ symbol_id = s

\* The step in which a try_poll of the loop returns Some(s).
ReturnsSome(s) ==
  /\ ~(op = "try_poll" /\ rpc = "returned")
  /\ op' = "try_poll" /\ rpc' = "returned" /\ poll_ret' = Some(s)

\* try_poll returns s only for an advance not yet seen, and takes all the
\* advances made so far at once.
CoalescedPoll ==
  \A s \in Symbols :
    ReturnsSome(s) => /\ symbol_versions[s] > local_versions[s]
                      /\ local_versions'[s] = symbol_versions[s]

\* A completed read_all_exchanges of a symbol the writer has not touched
\* since holds the present state of every slot of the symbol.
LatestRead ==
  (/\ op = "read_all_exchanges" /\ rpc = "returned"
   /\ local_versions[symbol_id] = symbol_versions[symbol_id]
   /\ (w.pc = "idle" \/ w.s # symbol_id))
  => \A e \in Exchanges :
       result[e] = IF bbo_matrix[symbol_id][e].seqlock = 0 THEN DefaultMsg
                   ELSE bbo_matrix[symbol_id][e]

\* C7: advances of versions[s] made between two polls are coalesced: try_poll
\* returns s only when versions[s] is ahead and then catches up with all of
\* them at once, the read that follows holds the latest state of the slots,
\* and when the writer stops advancing s at version n the reader gets there
\* (s is returned for those advances) and s is not returned again.
C7_Coalescing ==
  /\ [][CoalescedPoll]_vars
  /\ []LatestRead
  /\ \A s \in Symbols, n \in 0 .. MaxAdvances :
       <>[](symbol_versions[s] = n) => <>[](local_versions[s] = n)

\* C8: once a publish to slot (s, e) is committed and its version advance is
\* made, the loop reads exactly that payload for (s, e), unless the slot is
\* written again.
C8_LatestDelivered ==
  \A s \in Symbols, e \in Exchanges, n \in EvenSeqs :
    (w.pc = "advance" /\ w.s = s /\ w.e = e /\ bbo_matrix[s][e].seqlock = n)
      ~> (bbo_matrix[s][e].seqlock # n \/ Observed(s, e))

\* C9: every slot passed to on_bbo_update satisfies I4, 0 < bid < ask.
C9_DispatchedValid ==
  \A i \in DOMAIN calls :
    calls[i].fn = "on_bbo_update" => is_valid(calls[i].bbo)

\* The positions in calls of the calls made on strategy k for exchange e.
CallsOf(e, k) ==
  { i \in DOMAIN calls : calls[i].exchange_id = e /\ calls[i].strategy = k }

\* C10: after try_poll returned Some(s), on_bbo_update is called once on every
\* strategy for each valid slot of s (and never twice), with the slot that was
\* read, in ascending exchange index and, within one exchange, in insertion
\* order of the strategies, and on_idle is not called; after try_poll
\* returned None, the calls are on_idle once on every strategy in insertion
\* order and nothing else.
C10_DispatchOrder ==
  /\ op = "dispatch" =>
       /\ \A i \in DOMAIN calls :
            /\ calls[i].fn = "on_bbo_update"
            /\ calls[i].symbol_id = symbol_id
            /\ calls[i].bbo = result[calls[i].exchange_id]
       /\ \A e \in Exchanges, k \in Strategies :
            /\ is_valid(result[e]) => Cardinality(CallsOf(e, k)) = 1
            /\ Cardinality(CallsOf(e, k)) <= 1
            /\ CallsOf(e, k) # {} => \A k2 \in Strategies : CallsOf(e, k2) # {}
       /\ \A i, j \in DOMAIN calls :
            i < j => \/ calls[i].exchange_id < calls[j].exchange_id
                     \/ /\ calls[i].exchange_id = calls[j].exchange_id
                        /\ calls[i].strategy < calls[j].strategy
  /\ op = "on_idle" =>
       /\ poll_ret = None
       /\ Len(calls) = NumStrategies
       /\ \A k \in DOMAIN calls :
            calls[k].fn = "on_idle" /\ calls[k].strategy = k
  /\ op \notin {"dispatch", "on_idle"} => calls = << >>

\* Both slots of a symbol were valid and dispatched to every strategy.
C10_Witness ==
  /\ op = "dispatch"
  /\ \A e \in Exchanges : is_valid(result[e])
  /\ Len(calls) = NumExchanges * NumStrategies

\* C11: once the flag is set, the loop starts no new iteration after the
\* one in progress (at the top of the loop with the flag set nothing is
\* polled and nothing is called), no strategy call is made once the loop is
\* left, the loop is left only on the flag, the cleanup goes through the
\* Backpack and then the EdgeX cancellation whatever the first one gave, and
\* all this happens: the flag leads to "shutdown complete" also when the
\* feeder never stops advancing.
C11_GracefulShutdown ==
  /\ [][(shutdown /\ AtLoopTop) => (op' = op /\ rpc' = rpc /\ calls' = calls)]_vars
  /\ [][phase # "loop" => (op' = op /\ rpc' = rpc /\ calls' = calls)]_vars
  /\ [](phase # "loop" => shutdown)
  /\ [](phase = "complete" =>
          /\ Len(cancels) = 2
          /\ cancels[1].exchange = "backpack"
          /\ cancels[2].exchange = "edgex")
  /\ shutdown ~> (phase = "complete")

\* The flag came during a dispatch; the Backpack cancellation failed and the
\* EdgeX cancellation was made and succeeded.
C11_Witness ==
  /\ phase = "complete"
  /\ op = "dispatch" /\ calls # << >>
  /\ cancels[1].outcome = "err"
  /\ cancels[2].outcome = "ok"

\* What C12 requires of an emitted signal or ARB line.
SignalSound(sig, bps) ==
  /\ sig.buy_exchange # sig.sell_exchange
  /\ FGt(sig.sell_price, sig.buy_price)
  /\ FGt(sig.spread_bps, bps)

\* C12: every signal check returns and every ARB line the strategy scanner
\* logs has buy_exchange # sell_exchange, sell_price > buy_price and
\* spread_bps > min_spread_bps.
C12_SignalSound ==
  /\ signal # None => SignalSound(signal[1], min_spread_bps)
  /\ arb_log # None => SignalSound(arb_log[1], min_spread_bps)

\* Invariant I4 of the specification on f64 prices: 0 < bid < ask.
I4(bbo) ==
  /\ FGt(bbo.bid_price, FZero)
  /\ FGt(bbo.ask_price, FZero)
  /\ FGt(bbo.ask_price, bbo.bid_price)

\* The exchanges whose slot is valid, those among them holding the highest
\* bid, and those holding the lowest ask.
ValidSlots(slots) == { e \in ArbExchanges : I4(slots[e]) }

HighestBid(slots) ==
  { e \in ValidSlots(slots) :
      \A e2 \in ValidSlots(slots) : ~FGt(slots[e2].bid_price, slots[e].bid_price) }

LowestAsk(slots) ==
  { e \in ValidSlots(slots) :
      \A e2 \in ValidSlots(slots) : ~FGt(slots[e].ask_price, slots[e2].ask_price) }

\* The condition of C13 on the slots of a symbol: the highest bid and the
\* lowest ask lie on different exchanges eb, ea, the bid is above the ask, and
\* spread > mid * (min_bps / 10000).
Opportunity(slots, bps, eb, ea) ==
  /\ eb \in HighestBid(slots)
  /\ ea \in LowestAsk(slots)
  /\ eb # ea
  /\ FGt(slots[eb].bid_price, slots[ea].ask_price)
  /\ FGt(FSub(slots[eb].bid_price, slots[ea].ask_price),
         FMul(FMul(FAdd(slots[eb].bid_price, slots[ea].ask_price), FRound(1, 0 - 1)),
              FDiv(bps, F(10000))))

\* The signal or ARB line sig buys at the lowest ask and sells at the highest
\* bid of the slots.
Trades(sig, slots) ==
  /\ sig.sell_exchange \in HighestBid(slots)
  /\ sig.buy_exchange \in LowestAsk(slots)
  /\ sig.sell_price = slots[sig.sell_exchange].bid_price
  /\ sig.buy_price = slots[sig.buy_exchange].ask_price

\* C13: whenever the slots of the symbol hold an opportunity, check returns a
\* signal and the strategy scanner logs an ARB line, buying at the lowest ask
\* and selling at the highest bid.
C13_ScannerComplete ==
  \A eb, ea \in ArbExchanges :
    /\ Opportunity(arb_slots, min_spread_bps, eb, ea) =>
         signal # None /\ Trades(signal[1], arb_slots)
    /\ Opportunity(bbo_state, min_spread_bps, eb, ea) =>
         arb_log # None /\ Trades(arb_log[1], bbo_state)

\* Threshold 5: bid/ask 2403/2404 on exchange 1 and 2396/2397 on exchange 2
\* give buy_exchange 2 at 2397 and sell_exchange 1 at 2403, from both
\* scanners.
C13_Witness ==
  /\ min_spread_bps = F(5)
  /\ signal # None /\ arb_log # None
  /\ signal[1].buy_exchange = 2 /\ signal[1].sell_exchange = 1
  /\ signal[1].buy_price = F(2397) /\ signal[1].sell_price = F(2403)
  /\ arb_log[1].buy_exchange = 2 /\ arb_log[1].sell_exchange = 1
  /\ Opportunity(arb_slots, min_spread_bps, 1, 2)

\* C14: for all positive bid and ask with bid > ask (here: every bid and
\* every ask among the slots) and every threshold, the multiply-only trigger
\* holds iff the exact test holds.
C14_TriggerEquivalence ==
  \A eb, ea \in ArbExchanges :
    LET bid == arb_slots[eb].bid_price
        ask == arb_slots[ea].ask_price
    IN (FGt(ask, FZero) /\ FGt(bid, ask)) =>
         (fast_trigger(bid, ask, min_spread_bps)
            <=> slow_trigger(bid, ask, min_spread_bps))

\* C15: in every signal the sell exchange holds the highest bid over the valid
\* slots, the buy exchange the lowest ask over the valid slots, the prices
\* are those, and size is the smaller of the bid size at the sell exchange
\* and the ask size at the buy exchange.
C15_SignalSides ==
  signal # None =>
    /\ Trades(signal[1], arb_slots)
    /\ signal[1].size = Min(arb_slots[signal[1].sell_exchange].bid_size,
                            arb_slots[signal[1].buy_exchange].ask_size)

\* A signal from two valid slots while the third slot is the crossed one,
\* which holds a higher bid and a lower ask than both.
C15_Witness ==
  /\ signal # None
  /\ \E e \in ArbExchanges :
       /\ ~I4(arb_slots[e])
       /\ FGt(arb_slots[e].bid_price, signal[1].sell_price)
       /\ FGt(signal[1].buy_price, arb_slots[e].ask_price)
  /\ signal[1].size = 2
  /\ arb_slots[signal[1].buy_exchange].ask_size = 3

\* C16: the timestamp of a signal is the later of the timestamps of the slot
\* of its sell exchange and the slot of its buy exchange.
C16_SignalTimestamp ==
  signal # None =>
    LET ts_sell == arb_slots[signal[1].sell_exchange].timestamp_ns
        ts_buy  == arb_slots[signal[1].buy_exchange].timestamp_ns
    IN signal[1].timestamp_ns = IF ts_sell > ts_buy THEN ts_sell ELSE ts_buy

\* C17: open ends with Err when the file is missing or shorter than the
\* region, and with Ok only for a file of at least the required size, the
\* handle then holding min(num_symbols, S_MAX) and local versions all 0.
C17_OpenFailsCleanly ==
  open_pc = "done" =>
    /\ file_len < ExpectedSize => open_ret = "Err"
    /\ open_ret = "Ok" =>
         /\ file_len >= ExpectedSize
         /\ max_symbols = Min(num_symbols, MaxSymbols)
         /\ local_versions = NoVersions

\* C18: while there is a handle the region is mapped, and every load made
\* through the handle reads the region.
C18_RegionStaysMapped ==
  open_ret = "Ok" => mapped /\ access \in {"none", "region"}

\* The reader is inside read_bbo or read_all_exchanges.
Reading == rpc \in {"seq1", "copy"}

\* The number of steps the read in progress can still take: five per slot
\* (seq load, three field loads, seq re-load).
StepsLeft ==
  LET slots == IF op = "read_bbo" THEN 1 ELSE NumExchanges - exch
  IN IF rpc = "seq1" THEN 5 * slots
     ELSE IF rpc = "copy" THEN 5 * (slots - 1) + Cardinality(todo) + 1
     ELSE 0

\* C19: a read never retries: every step of read_bbo / read_all_exchanges
\* lowers the number of steps left, which is at most five per slot, whatever
\* is stored into the slots meanwhile, so the read returns; a slot found odd
\* gives the sentinel at once and the read goes on to the next slot.
C19_ReadBounded ==
  /\ [](StepsLeft <= 5 * NumExchanges)
  /\ [][(Reading /\ << rpc, exch, todo, seq2 >>' # << rpc, exch, todo, seq2 >>)
          => StepsLeft' < StepsLeft]_vars
  /\ [][(rpc = "seq1" /\ << rpc, exch >>' # << rpc, exch >>
           /\ bbo_matrix[symbol_id][exch].seqlock % 2 = 1)
          => (result'[exch] = DefaultMsg /\ exch' = exch + 1)]_vars
  /\ Reading ~> (rpc = "returned")

\* read_all_exchanges has returned an array of sentinels for a symbol whose
\* slots are all odd.
C19_Witness ==
  /\ op = "read_all_exchanges" /\ rpc = "returned"
  /\ \A e \in Exchanges :
       bbo_matrix[symbol_id][e].seqlock % 2 = 1 /\ result[e] = DefaultMsg
  /\ seq1 % 2 = 1

\* C20: a read whose first seq load finds the slot odd returns the sentinel;
\* a read made after the closing even seq is stored (its first load is that
\* seq, the slot not being written again) returns the committed payload.
C20_TornReadRecovery ==
  /\ [][(rpc = "seq1" /\ << rpc, exch >>' # << rpc, exch >>
           /\ bbo_matrix[symbol_id][exch].seqlock % 2 = 1)
          => result'[exch] = DefaultMsg]_vars
  /\ []((JustRead /\ seq1 # 0 /\ seq1 % 2 = 0 /\ seq1 = ReadSlot.seqlock)
          => (ReadValue = ReadSlot /\ ReadValue # DefaultMsg))

\* The writer is paused with seq 3 on the slot and the read returned the
\* sentinel.
C20_Witness ==
  /\ JustRead
  /\ w.pc = "store" /\ w.s = symbol_id /\ w.e = exch - 1
  /\ ReadSlot.seqlock = 3 /\ seq1 = 3
  /\ ReadValue = DefaultMsg

\* C21: when a read of a slot returns and the client holds a record that an
\* earlier read of the same slot returned, with no write of the feeder to
\* that slot in between, the two records are identical; this holds whether or
\* not the symbol's version advanced between the two reads.
C21_RereadIdentical ==
  \A s \in Symbols, e \in Exchanges :
    Len(seen[s][e]) = 2 => seen[s][e][2].bbo = seen[s][e][1].bbo

\* A slot was read twice with the same payload while the symbol's version
\* advanced between the two reads and the feeder wrote nothing to the slot.
C21_Witness ==
  \E s \in Symbols, e \in Exchanges :
    /\ Len(seen[s][e]) = 2
    /\ seen[s][e][2].bbo # DefaultMsg
    /\ seen[s][e][2].version > seen[s][e][1].version

\* C22: when poll_all(max) has returned, for every max >= 0, the vector holds
\* at most max symbol ids, in ascending order without repeats, each of them a
\* symbol of the scan range whose loaded version exceeded the local version
\* the call began with, and the local versions changed are exactly those of
\* the returned symbols, which now hold the loaded versions.
C22_PollAllBounded ==
  (op = "poll_all" /\ rpc = "returned") =>
     /\ Len(updated) <= max
     /\ \A i \in 1 .. Len(updated) :
          /\ updated[i] \in Symbols
          /\ loaded[updated[i]] > local0[updated[i]]
          /\ \A j \in 1 .. Len(updated) : i < j => updated[i] < updated[j]
     /\ \A s \in Symbols :
          IF \E i \in 1 .. Len(updated) : updated[i] = s
          THEN local_versions[s] = loaded[s]
          ELSE local_versions[s] = local0[s]

Failed(t) == \E k \in 1 .. Len(t.log) : t.log[k].ev = "err"

\* The step is the return of an on_idle call.
IdleReturns == mm_pc \in {"on_idle", "balance"} /\ mm_pc' = "ready"

\* C24: a failed position, cancel-all or order request of a requote changes
\* nothing in the strategy and does not reach the dispatch thread (a step of
\* a task leaves the strategy's fields and the thread's position alone), and
\* the failed operation is retried on the next on_idle call: an on_idle call
\* that returns while a request of the last requote has failed starts a
\* requote.
C24_FailureRetried ==
  [][ /\ tasks' # tasks /\ Len(tasks') = Len(tasks) =>
           UNCHANGED << mm_pc, last_mid, last_quoted_mid, last_update,
                        last_balance_refresh, max_position, base_size,
                        stop_loss_usd >>
      /\ (IdleReturns /\ \E i \in 1 .. Len(tasks) : Failed(tasks[i])) =>
           Len(tasks') > Len(tasks) ]_vars
\* C25: once the reader has loaded, for a slot, a seq lower than the one it
\* loaded on its read before, it hands out no payload of that slot: the read
\* that saw the lower seq returns nothing to the caller.
C25_BackwardSeqAborts ==
  \A s \in Symbols, e \in Exchanges :
    (Len(seen[s][e]) = 2 /\ seen[s][e][2].seq < seen[s][e][1].seq)
      => seen[s][e][2].bbo = DefaultMsg

\* C26: try_poll, read_bbo and read_all_exchanges take nothing from the heap,
\* at any point of the call, and neither does the iteration of the dispatch
\* loop whose try_poll returned None (the on_idle calls of the strategies set
\* aside): the reader holds no heap element while one of them runs or has
\* just returned.
C26_NoHeapAllocation ==
  op \in {"try_poll", "read_bbo", "read_all_exchanges", "on_idle"}
    => HeapElements = 0

\* An idle iteration of the dispatch loop, after a poll that had returned a
\* symbol on an earlier iteration.
C26_Witness ==
  /\ op = "on_idle"
  /\ calls = IdleCalls
  /\ \E s \in Symbols : local_versions[s] > 0

\* on_idle returns with a requote decision made: last_update is set to the
\* time of the call and, with a client, a task is spawned.
RequoteDecision ==
  IdleReturns /\ (last_update' # last_update \/ Len(tasks') > Len(tasks))

\* C27: a requote decision comes at least requote_interval after the one
\* before it, and nothing but a requote decision sets last_update; the first
\* on_idle that runs with a mid price makes one; and while last_mid = 0 an
\* on_idle call returns with no request sent (no balance request, no task)
\* and no field of the strategy changed.
C27_RequoteRateLimit ==
  [][ /\ last_update' # last_update => RequoteDecision
      /\ RequoteDecision =>
            /\ last_update' = Some(now)
            /\ last_update # None =>
                 now - last_update[1] >=
                   ExchangeConfig(strategy).requote_interval
      /\ (IdleReturns /\ last_mid # 0 /\ last_update = None) =>
            RequoteDecision
      /\ (mm_pc = "on_idle" /\ last_mid = 0 /\ mm_pc' # mm_pc) =>
            /\ mm_pc' = "ready"
            /\ UNCHANGED << tasks, last_mid, last_quoted_mid, last_update,
                            last_balance_refresh, max_position, base_size,
                            stop_loss_usd >> ]_vars

\* A second requote decision has been made: the first one came with the
\* balance reply, this one later.
C27_Witness ==
  /\ last_balance_refresh # None
  /\ last_update # None
  /\ last_update[1] > last_balance_refresh[1]

\* The k-th request of task t is the closing order of the stop-loss.
ClosingOrder(t, k) ==
  /\ t.log[k].call = "create_order"
  /\ t.log[k].ev = "issue"
  /\ t.log[k].tif = "IOC"

\* C28: a requote cycle that sends the closing IOC order of the stop-loss has
\* sent a cancel-all for its resting quotes before it, closes the whole
\* position the task read, and sends no post-only quote.
C28_StopLossCancelsAndCloses ==
  \A i \in 1 .. Len(tasks) :
    \A k \in 1 .. Len(tasks[i].log) :
      ClosingOrder(tasks[i], k) =>
        /\ \E j \in 1 .. (k - 1) : tasks[i].log[j].call = "cancel_all"
        /\ tasks[i].log[k].quantity = Abs(tasks[i].live_pos)
        /\ ~tasks[i].log[k].post_only
        /\ \A j \in 1 .. Len(tasks[i].log) :
              tasks[i].log[j].call = "create_order" => tasks[i].log[j].tif = "IOC"

\* The requests of task t that submit a quote of the given side: the orders
\* other than the closing order of the stop-loss.
QuoteOrders(t, side) ==
  { k \in 1 .. Len(t.log) :
      /\ t.log[k].call = "create_order"
      /\ t.log[k].ev = "issue"
      /\ t.log[k].side = side
      /\ ~ClosingOrder(t, k) }

\* C29: in a requote cycle every quote is submitted after the cancel-all of
\* that cycle was sent and its reply (success or failure) came back; every
\* quote is post-only; and the cycle submits at most one bid and at most one
\* ask.
C29_CancelThenPostOnlyQuotes ==
  \A i \in 1 .. Len(tasks) :
    \A side \in {"Bid", "Ask"} :
      /\ Cardinality(QuoteOrders(tasks[i], side)) <= 1
      /\ \A k \in QuoteOrders(tasks[i], side) :
            /\ tasks[i].log[k].post_only
            /\ \E j \in 1 .. (k - 1) :
                  /\ tasks[i].log[j].call = "cancel_all"
                  /\ tasks[i].log[j].ev = "issue"
                  /\ \E c \in (j + 1) .. (k - 1) :
                        /\ tasks[i].log[c].call = "cancel_all"
                        /\ tasks[i].log[c].ev \in Outcomes

\* A cycle has submitted a bid and an ask, after a cancel-all that failed.
C29_Witness ==
  \E i \in 1 .. Len(tasks) :
    /\ QuoteOrders(tasks[i], "Bid") # {}
    /\ QuoteOrders(tasks[i], "Ask") # {}
    /\ \E c \in 1 .. Len(tasks[i].log) :
          tasks[i].log[c].call = "cancel_all" /\ tasks[i].log[c].ev = "err"

\* C30: a requote cycle submits no bid while the account's position is at or
\* above the max_position of the cycle, and no ask while it is at or below
\* the negative of it.
C30_InventoryFreeze ==
  \A i \in 1 .. Len(tasks) :
    /\ position >= tasks[i].max_position =>
          QuoteOrders(tasks[i], "Bid") = {}
    /\ position <= 0 - tasks[i].max_position =>
          QuoteOrders(tasks[i], "Ask") = {}

\* C31: on the exchange that reports no entry price, a requote cycle that
\* runs while the account's position is beyond three times the max_position
\* of the cycle sends a cancel-all once it has its position reply, and
\* submits no bid and no ask.
C31_OverExposureGuard ==
  \A i \in 1 .. Len(tasks) :
    (/\ strategy = "edgex"
     /\ tasks[i].max_position > 0
     /\ Abs(position) > 3 * tasks[i].max_position) =>
      /\ QuoteOrders(tasks[i], "Bid") = {}
      /\ QuoteOrders(tasks[i], "Ask") = {}
      /\ tasks[i].pc # "positions" =>
            \E k \in 1 .. Len(tasks[i].log) :
              tasks[i].log[k].call = "cancel_all"

\* The last n elements of a sequence.
LastOf(q, n) == SubSeq(q, Len(q) - n + 1, Len(q))

\* C32: the mid history never holds more than vol_window entries, and it is
\* the most recent mids of the target, oldest first; last_mid is the latest
\* of them. An update for another symbol or exchange, which adds nothing to
\* the mids of the target, therefore leaves both as they were.
C32_MidHistoryFifo ==
  /\ Len(mid_history) <= VolWindow
  /\ mid_history = LastOf(arrivals, Min(VolWindow, Len(arrivals)))
  /\ last_mid = IF arrivals = << >> THEN 0 ELSE arrivals[Len(arrivals)]

\* More mids than the window holds have arrived, the dropped one differing
\* from those kept.
C32_Witness ==
  /\ Len(arrivals) > VolWindow
  /\ Len(mid_history) = VolWindow
  /\ arrivals[Len(arrivals) - VolWindow] # mid_history[1]

\* The reply to the balance request arrives and on_idle goes on.
BalanceReplied == mm_pc = "balance" /\ mm_pc' = "ready"

\* C33: once a balance request has been answered, whatever the answer, no
\* further balance request is due: the on_idle calls that follow send none
\* until balance_refresh_secs have passed.
C33_RefreshRateLimited == [][BalanceReplied => ~should_refresh']_vars

\* The risk budget of the strategy.
RiskBudget ==
  [max_position |-> max_position, base_size |-> base_size,
   stop_loss_usd |-> stop_loss_usd]

\* C34: the reply to a balance request either leaves the risk budget exactly
\* as it was or sets it to the budget computed from the equity of an account
\* snapshot; a failed request and a reply without a snapshot change nothing.
C34_BudgetKept ==
  [][BalanceReplied =>
       \/ RiskBudget' = RiskBudget
       \/ \E q \in Equities : RiskBudget' = Budget(strategy, q, last_mid)]_vars

\* The strict read that has just returned met a write in progress (odd seq)
\* or was torn (the seq changed during the copy).
MetWrite == seq1 % 2 = 1 \/ (seq1 # 0 /\ seq1 # seq2)

\* C35: a strict read of a never-written slot (seq = 0) returns the sentinel,
\* and a strict read that met a write in progress or was torn returns a value
\* other than that sentinel, so that the caller can tell the two apart.
C35_NeverWrittenDistinct ==
  JustRead =>
    /\ seq1 = 0 => result[exch - 1] = DefaultMsg
    /\ MetWrite => result[exch - 1] # DefaultMsg

\* C36: for every symbol the reader's last-seen version is one of the values
\* the shared counter has held: it is never ahead of the counter.
C36_LocalNeverAhead ==
  \A s \in Symbols : local_versions[s] \in 0 .. symbol_versions[s]

\* The reader has taken a version of a symbol and the counter has moved on
\* since; another symbol's counter is lower than the version taken.
C36_Witness ==
  \E s, t \in Symbols :
    /\ local_versions[s] > 0
    /\ local_versions[s] < symbol_versions[s]
    /\ symbol_versions[t] < local_versions[s]

\* The reader has taken every advance of symbol s: try_poll will not return s
\* until the feeder advances it again.
Consumed(s) == local_versions[s] = symbol_versions[s]

\* C37: while no call and no publish is under way, an advance of a symbol is
\* consumed only if every slot of the symbol that has been written has been
\* read since its last write: the caller holds a record of each.
C37_NoSwallowedSlot ==
  \A s \in Symbols :
    (rpc = "returned" /\ w.pc = "idle" /\ Consumed(s)) =>
      \A e \in Exchanges :
        bbo_matrix[s][e].seqlock # 0 => seen[s][e] # << >>

\* The dispatch loop calls on_bbo_update of the engine in this step, and the
\* engine scans its slots.
Evaluates == exch' = exch + 1 /\ PassesFilterQuote(arb_slots[exch])

\* C38: a signal the engine emits when it scans its slots is a crossed
\* spread of the array read_all_exchanges returned last: the bid it sells at
\* and the ask it buys at are those of that array's slots.
C38_SignalFromLatestPass ==
  [][(Evaluates /\ arb_log' # None) =>
       /\ arb_log'[1].sell_price =
            arb_slots[arb_log'[1].sell_exchange].bid_price
       /\ arb_log'[1].buy_price =
            arb_slots[arb_log'[1].buy_exchange].ask_price]_vars

\* C39: at any time at most one bid and at most one ask of a market-maker
\* strategy rest on its exchange, whatever the interleaving of its requote
\* tasks and whatever the outcome of their cancel-all requests.
C39_OneQuotePerSide ==
  resting # None => resting[1].Bid <= 1 /\ resting[1].Ask <= 1

\* The cleanup is over and every cancellation it sent was accepted.
CleanShutdown ==
  /\ phase = "complete"
  /\ \A k \in 1 .. Len(cancels) : cancels[k].outcome = "ok"

\* C40: once the shutdown cleanup has completed with both cancel-all
\* requests accepted, no order of a strategy rests on its exchange: no task
\* spawned before the cleanup has placed one after the cancel-all.
C40_NothingRestsAfterShutdown ==
  (CleanShutdown /\ resting # None) => resting = Some(NoOrders)

====
